---- MODULE Spec2Model ----
(***************************************************************************)
(* bevy-tasks: the file-backed task store (FileSystemStorage) and the      *)
(* TaskRepository built on it.                                             *)
(*                                                                         *)
(* The workspace directory is the value fs; the storage object's in-memory *)
(* index is list_paths.  Storage and repository methods are operators that *)
(* take the file system and the index and return a result record           *)
(* [ok, err, val, fs, lp]; the actions at the end apply them.  read_dir    *)
(* returns entries in no specified order and HashMap iteration is          *)
(* unordered: both are parameters (scan, iter) the actions and the         *)
(* properties quantify over.                                               *)
(***************************************************************************)
EXTENDS Integers, Sequences, FiniteSets, TLC

\* ------------------------------------------------------------------ bounds
\* the identifiers (Uuid) a caller may name
MaxUuid == 3
\* the identifiers of the tasks a caller writes
MaxTaskId == 2
\* how many lists are created
MaxLists == 3
\* the clock runs from 0 to MaxClock
MaxClock == 1
\* create_task is not called on a task order of this length
MaxOrderLen == 3
\* the positions a caller asks for run from 0 to MaxPos
MaxPos == 3
\* the descriptions have up to this many characters
MaxDescLen == 3

Uuids == 1..MaxUuid
TaskIds == 1..MaxTaskId
ListIds == Uuids
Times == 0..MaxClock
Positions == 0..MaxPos

\* Option<T>: None is the empty sequence, Some(x) the one-element sequence
None == <<>>
Some(x) == <<x>>
IsSome(o) == o # <<>>
Unwrap(o) == o[1]

\* ------------------------------------------------------------------ names
\* A name is a sequence of characters; a run of characters that
\* sanitize_filename leaves alone is written as one element.
Hostile == {"/", "\\", ":", "*", "?", "\"", "<", ">", "|"}

sanitize_filename(name) ==
    [i \in 1..Len(name) |-> IF name[i] \in Hostile THEN "_" ELSE name[i]]

DefaultListName == <<"My Tasks">>
ListNames == {DefaultListName, <<".", "Work">>, <<"a", ":", "b">>}
Titles == {<<>>, <<"a">>, <<"/">>}
DirNames == {sanitize_filename(n) : n \in ListNames}
\* a task file is named <stem>.md; the model names it by its stem
Stems == {sanitize_filename(t) : t \in Titles}

\* The character U+0000 is written "NUL".  sanitize_filename leaves it alone,
\* and std::fs refuses a path that holds it (io::ErrorKind::InvalidInput):
\* no file is ever named by a title that holds it.
UnwritableTitle == <<"a", "NUL">>

fs_write_refuses(stem) == \E i \in 1..Len(stem) : stem[i] = "NUL"

\* path.extension() == Some("md"): the file ".md" (empty stem) begins with a
\* dot and has no other dot, so it has no extension
has_md_extension(stem) == stem # <<>>

TaskStatus == {"backlog", "completed"}
DueDates == {None, Some(1)}
\* the characters of a description: a letter, a whitespace and the hyphen of
\* the section delimiter
DescriptionChars == {"x", " ", "-"}
Descriptions == UNION {[1..n -> DescriptionChars] : n \in 0..MaxDescLen}

\* ------------------------------------------------------------------ models
\* Task::new(title) at clock value t, with the identifier drawn as id
Task_new(id, title, t) ==
    [id |-> id, title |-> title, description |-> <<>>, status |-> "backlog",
     due_date |-> None, created_at |-> t, updated_at |-> t, parent_id |-> None]

\* a variant of Task::complete that flips the status
Task_complete_flip(task, t) ==
    [task EXCEPT !.status = IF @ = "completed" THEN "backlog" ELSE "completed",
                 !.updated_at = t]

Task_complete(task, t) == [task EXCEPT !.status = "completed", !.updated_at = t]

Task_uncomplete(task, t) == [task EXCEPT !.status = "backlog", !.updated_at = t]

\* a variant of ListMetadata::new with the grouping switched on
ListMetadata_grouped(id, t) ==
    [id |-> id, created_at |-> t, updated_at |-> t, group_by_due_date |-> TRUE,
     task_order |-> <<>>]

ListMetadata_new(id, t) ==
    [id |-> id, created_at |-> t, updated_at |-> t, group_by_due_date |-> FALSE,
     task_order |-> <<>>]

GlobalMetadata_default ==
    [version |-> 1, list_order |-> <<>>, last_opened_list |-> None]

\* ------------------------------------------------------------------ Vec
\* a variant of retain that keeps every element
retain_all(v, x) == v

\* v.retain(|&y| y != x)
retain_ne(v, x) == SelectSeq(v, LAMBDA y : y # x)

\* Vec::insert(idx, x), idx counted from 0 (idx <= len)
vec_insert(v, idx, x) == SubSeq(v, 1, idx) \o <<x>> \o SubSeq(v, idx + 1, Len(v))

Min(a, b) == IF a <= b THEN a ELSE b

Range(s) == {s[i] : i \in 1..Len(s)}

contains(v, x) == x \in Range(v)

\* iter().position(|e| e == x): the first index, from 0
position(v, x) ==
    IF x \in Range(v)
    THEN Some((CHOOSE i \in 1..Len(v) : v[i] = x /\ \A j \in 1..(i - 1) : v[j] # x) - 1)
    ELSE None

\* every order in which the elements of S can be enumerated
Perms(S) ==
    {s \in [1..Cardinality(S) -> S] : \A x \in S : \E i \in 1..Cardinality(S) : s[i] = x}

\* ------------------------------------------------------------------ results
Ok(v, f, lp) == [ok |-> TRUE, err |-> "", val |-> v, fs |-> f, lp |-> lp]
Err(e, f, lp) == [ok |-> FALSE, err |-> e, val |-> None, fs |-> f, lp |-> lp]

\* ------------------------------------------------------------------ file system
EmptyDir == [listdata |-> None, tasks |-> [s \in Stems |-> None]]

EmptyFs == [root |-> FALSE, metadata |-> None, dirs |-> [d \in DirNames |-> None]]

dir_exists(f, d) == IsSome(f.dirs[d])

\* the task files present in directory d
files_in(f, d) == {s \in Stems : IsSome(Unwrap(f.dirs[d]).tasks[s])}

\* the orders in which read_dir may return the entries of d
ScanOrders(f, d) == Perms(files_in(f, d))

\* ------------------------------------------------------------------ codec
\* A task file is a text: a sequence of characters, with the YAML text that
\* serde_yaml writes for a TaskFrontmatter (its final newline included) as
\* one token.  serde_yaml writes no "---" and parses back what it wrote.
Ch(c) == [c |-> c, fm |-> None]

Yaml(frontmatter) == [c |-> "yaml", fm |-> Some(frontmatter)]

chars(text) == [i \in 1..Len(text) |-> Ch(text[i])]

text_of(tokens) == [i \in 1..Len(tokens) |-> tokens[i].c]

\* serialize_task: format!("---\n{}---\n\n{}\n", yaml, task.description)
serialize_task(task) ==
    chars(<<"-", "-", "-", "\n">>)
        \o <<Yaml([id |-> task.id, status |-> task.status, due |-> task.due_date,
                   created |-> task.created_at, updated |-> task.updated_at,
                   parent |-> task.parent_id])>>
        \o chars(<<"-", "-", "-", "\n", "\n">>) \o chars(task.description) \o chars(<<"\n">>)

Whitespace == {" ", "\n", "\t"}

\* str::trim: drop the leading and the trailing whitespace
RECURSIVE trim_start(_)
trim_start(s) ==
    IF s # <<>> /\ Head(s).c \in Whitespace THEN trim_start(Tail(s)) ELSE s

RECURSIVE trim_end(_)
trim_end(s) ==
    IF s # <<>> /\ s[Len(s)].c \in Whitespace THEN trim_end(SubSeq(s, 1, Len(s) - 1)) ELSE s

trim(s) == trim_end(trim_start(s))

\* str::find("---") from index i on: the index of the first match, 0 if none
RECURSIVE find_delimiter(_, _)
find_delimiter(s, i) ==
    IF i + 2 > Len(s) THEN 0
    ELSE IF s[i].c = "-" /\ s[i + 1].c = "-" /\ s[i + 2].c = "-" THEN i
         ELSE find_delimiter(s, i + 1)

\* content.splitn(3, "---"): at most three parts, the last one holding the
\* rest of the text with any further delimiter
splitn3(content) ==
    LET a == find_delimiter(content, 1)
    IN  IF a = 0 THEN <<content>>
        ELSE LET b == find_delimiter(content, a + 3)
             IN  IF b = 0
                 THEN <<SubSeq(content, 1, a - 1), SubSeq(content, a + 3, Len(content))>>
                 ELSE <<SubSeq(content, 1, a - 1), SubSeq(content, a + 3, b - 1),
                        SubSeq(content, b + 3, Len(content))>>

\* serde_yaml::from_str::<TaskFrontmatter>: only the text serde_yaml wrote
\* for a front matter is taken to parse
yaml_from_str(text) == IF Len(text) = 1 /\ IsSome(text[1].fm) THEN text[1].fm ELSE None

ParseOk(task) == [ok |-> TRUE, err |-> "", val |-> task]
ParseErr(e) == [ok |-> FALSE, err |-> e, val |-> None]

\* parse_task_file(title, content): the title comes from the file name, the
\* description is the trimmed text after the second delimiter
parse_task_file(title, content) ==
    LET parts == splitn3(content)
    IN  IF Len(parts) < 3 THEN ParseErr("InvalidTaskFile")
        ELSE LET y == yaml_from_str(trim(parts[2]))
             IN  IF ~IsSome(y) THEN ParseErr("Yaml")
                 ELSE LET frontmatter == Unwrap(y)
                      IN  ParseOk([id |-> frontmatter.id, title |-> title,
                                   description |-> text_of(trim(parts[3])),
                                   status |-> frontmatter.status,
                                   due_date |-> frontmatter.due,
                                   created_at |-> frontmatter.created,
                                   updated_at |-> frontmatter.updated,
                                   parent_id |-> frontmatter.parent])

\* the front matter of a task file that the program wrote
frontmatter_of(content) == Unwrap(yaml_from_str(trim(splitn3(content)[2])))

\* ------------------------------------------------------------------ storage
\* FileSystemStorage methods.  f is the file system, lp the list_paths index.

\* load_list_paths: every directory of the root that holds a .listdata.json,
\* keyed by the identifier in it (a later entry of the scan replaces an
\* earlier one with the same identifier)
RECURSIVE load_list_paths_scan(_, _, _)
load_list_paths_scan(f, scan, lp) ==
    IF scan = <<>> THEN lp
    ELSE LET d == Head(scan)
             dir == Unwrap(f.dirs[d])
         IN  IF IsSome(dir.listdata)
             THEN load_list_paths_scan(f, Tail(scan),
                      [lp EXCEPT ![Unwrap(dir.listdata).id] = Some(d)])
             ELSE load_list_paths_scan(f, Tail(scan), lp)

NoPaths == [l \in ListIds |-> None]

\* the orders in which read_dir may return the directories of the root
RootScans(f) == Perms({d \in DirNames : dir_exists(f, d)})

\* FileSystemStorage::new: the index is loaded only if the root exists
storage_new(f, scan) ==
    IF f.root THEN load_list_paths_scan(f, scan, NoPaths) ELSE NoPaths

read_global_metadata(f, lp) ==
    IF ~IsSome(f.metadata) THEN Ok(GlobalMetadata_default, f, lp)
    ELSE Ok(Unwrap(f.metadata), f, lp)

write_global_metadata(f, lp, metadata) ==
    IF ~f.root THEN Err("Io", f, lp)
    ELSE Ok(None, [f EXCEPT !.metadata = Some(metadata)], lp)

\* a variant of Storage::init that writes the default metadata whether or
\* not the file is there
storage_init_overwrite(f, lp) ==
    write_global_metadata([f EXCEPT !.root = TRUE], lp, GlobalMetadata_default)

\* Storage::init: create the root, and the metadata file if it is missing
storage_init(f, lp) ==
    LET f1 == [f EXCEPT !.root = TRUE]
    IN  IF ~IsSome(f1.metadata)
        THEN write_global_metadata(f1, lp, GlobalMetadata_default)
        ELSE Ok(None, f1, lp)

read_list_metadata(f, lp, list_id) ==
    IF ~IsSome(lp[list_id]) THEN Err("ListNotFound", f, lp)
    ELSE LET d == Unwrap(lp[list_id])
         IN  IF ~dir_exists(f, d) \/ ~IsSome(Unwrap(f.dirs[d]).listdata)
             THEN Err("Io", f, lp)
             ELSE Ok(Unwrap(f.dirs[d]).listdata[1], f, lp)

write_list_metadata(f, lp, metadata) ==
    IF ~IsSome(lp[metadata.id]) THEN Err("ListNotFound", f, lp)
    ELSE LET d == Unwrap(lp[metadata.id])
         IN  IF ~dir_exists(f, d) THEN Err("Io", f, lp)
             ELSE Ok(None,
                     [f EXCEPT !.dirs[d] = Some([Unwrap(@) EXCEPT !.listdata = Some(metadata)])],
                     lp)

\* a variant of write_task that renames: the other files of the directory
\* that carry the task's identifier are removed
write_task_removing_old(f, lp, list_id, task) ==
    IF ~IsSome(lp[list_id]) THEN Err("ListNotFound", f, lp)
    ELSE LET d == Unwrap(lp[list_id])
             stem == sanitize_filename(task.title)
             carries(s) ==
                 /\ IsSome(Unwrap(f.dirs[d]).tasks[s])
                 /\ parse_task_file(s, Unwrap(Unwrap(f.dirs[d]).tasks[s])).ok
                 /\ parse_task_file(s, Unwrap(Unwrap(f.dirs[d]).tasks[s])).val.id = task.id
         IN  IF ~dir_exists(f, d) \/ fs_write_refuses(stem) THEN Err("Io", f, lp)
             ELSE Ok(None,
                     [f EXCEPT !.dirs[d] =
                        Some([Unwrap(@) EXCEPT !.tasks =
                                 [s \in Stems |->
                                     IF s = stem THEN Some(serialize_task(task))
                                     ELSE IF carries(s) THEN None ELSE @[s]]])],
                     lp)

\* write_task: the file is named after the sanitized title; fs::write fails
\* when the directory is gone or the name is one it refuses
write_task(f, lp, list_id, task) ==
    IF ~IsSome(lp[list_id]) THEN Err("ListNotFound", f, lp)
    ELSE LET d == Unwrap(lp[list_id])
             stem == sanitize_filename(task.title)
         IN  IF ~dir_exists(f, d) \/ fs_write_refuses(stem) THEN Err("Io", f, lp)
             ELSE Ok(None,
                     [f EXCEPT !.dirs[d] =
                        Some([Unwrap(@) EXCEPT !.tasks[stem] = Some(serialize_task(task))])],
                     lp)

\* the loop of read_task over the directory entries in the order scan
RECURSIVE read_task_scan(_, _, _, _, _)
read_task_scan(f, lp, d, scan, task_id) ==
    IF scan = <<>> THEN Err("TaskNotFound", f, lp)
    ELSE LET stem == Head(scan)
         IN  IF has_md_extension(stem)
             THEN LET parsed == parse_task_file(stem, Unwrap(Unwrap(f.dirs[d]).tasks[stem]))
                  IN  IF ~parsed.ok THEN Err(parsed.err, f, lp)
                      ELSE IF parsed.val.id = task_id THEN Ok(parsed.val, f, lp)
                      ELSE read_task_scan(f, lp, d, Tail(scan), task_id)
             ELSE read_task_scan(f, lp, d, Tail(scan), task_id)

\* a variant of read_task that passes over the files that do not parse
read_task_skipping_unparsable(f, lp, list_id, task_id, scan) ==
    IF ~IsSome(lp[list_id]) THEN Err("ListNotFound", f, lp)
    ELSE LET d == Unwrap(lp[list_id])
             parses(stem) ==
                 has_md_extension(stem)
                     => parse_task_file(stem, Unwrap(Unwrap(f.dirs[d]).tasks[stem])).ok
         IN  IF ~dir_exists(f, d) THEN Err("Io", f, lp)
             ELSE read_task_scan(f, lp, d, SelectSeq(scan, parses), task_id)

read_task(f, lp, list_id, task_id, scan) ==
    IF ~IsSome(lp[list_id]) THEN Err("ListNotFound", f, lp)
    ELSE LET d == Unwrap(lp[list_id])
         IN  IF ~dir_exists(f, d) THEN Err("Io", f, lp)
             ELSE read_task_scan(f, lp, d, scan, task_id)

\* the loop of delete_task: the first entry of the scan that carries the
\* identifier is removed
RECURSIVE delete_task_scan(_, _, _, _, _)
delete_task_scan(f, lp, d, scan, task_id) ==
    IF scan = <<>> THEN Err("TaskNotFound", f, lp)
    ELSE LET stem == Head(scan)
         IN  IF has_md_extension(stem)
             THEN LET parsed == parse_task_file(stem, Unwrap(Unwrap(f.dirs[d]).tasks[stem]))
                  IN  IF ~parsed.ok THEN Err(parsed.err, f, lp)
                      ELSE IF parsed.val.id = task_id
                      THEN Ok(None,
                              [f EXCEPT !.dirs[d] = Some([Unwrap(@) EXCEPT !.tasks[stem] = None])],
                              lp)
                      ELSE delete_task_scan(f, lp, d, Tail(scan), task_id)
             ELSE delete_task_scan(f, lp, d, Tail(scan), task_id)

storage_delete_task(f, lp, list_id, task_id, scan) ==
    IF ~IsSome(lp[list_id]) THEN Err("ListNotFound", f, lp)
    ELSE LET d == Unwrap(lp[list_id])
         IN  IF ~dir_exists(f, d) THEN Err("Io", f, lp)
             ELSE delete_task_scan(f, lp, d, scan, task_id)

\* the loop of Storage::list_tasks: every .md entry, in scan order, pushed
\* on tasks; the first file that does not parse ends the loop with its error
RECURSIVE list_tasks_scan(_, _, _, _)
list_tasks_scan(f, d, scan, tasks) ==
    IF scan = <<>> THEN ParseOk(tasks)
    ELSE LET stem == Head(scan)
         IN  IF has_md_extension(stem)
             THEN LET parsed == parse_task_file(stem, Unwrap(Unwrap(f.dirs[d]).tasks[stem]))
                  IN  IF ~parsed.ok THEN parsed
                      ELSE list_tasks_scan(f, d, Tail(scan), Append(tasks, parsed.val))
             ELSE list_tasks_scan(f, d, Tail(scan), tasks)

storage_list_tasks(f, lp, list_id, scan) ==
    IF ~IsSome(lp[list_id]) THEN Err("ListNotFound", f, lp)
    ELSE LET d == Unwrap(lp[list_id])
         IN  IF ~dir_exists(f, d) THEN Err("Io", f, lp)
             ELSE LET r == list_tasks_scan(f, d, scan, <<>>)
                  IN  IF r.ok THEN Ok(r.val, f, lp) ELSE Err(r.err, f, lp)

\* a variant of create_list that fails when the directory is already there
create_list_refusing_existing(f, lp, name, list_id, t) ==
    LET d == sanitize_filename(name)
        metadata == ListMetadata_new(list_id, t)
        f2 == [f EXCEPT !.root = TRUE,
                        !.dirs[d] = Some([EmptyDir EXCEPT !.listdata = Some(metadata)])]
        lp1 == [lp EXCEPT ![list_id] = Some(d)]
        g == read_global_metadata(f2, lp1).val
        g1 == [g EXCEPT !.list_order = Append(@, list_id)]
        g2 == IF ~IsSome(g1.last_opened_list)
              THEN [g1 EXCEPT !.last_opened_list = Some(list_id)]
              ELSE g1
        w == write_global_metadata(f2, lp1, g2)
    IN  IF dir_exists(f, d) THEN Err("Io", f, lp)
        ELSE IF w.ok THEN Ok(list_id, w.fs, lp1) ELSE w

\* Storage::create_list.  list_id is the Uuid::new_v4() drawn, t the clock.
create_list(f, lp, name, list_id, t) ==
    LET d == sanitize_filename(name)
        \* create_dir_all: the root and the directory, kept if already there
        f1 == [f EXCEPT !.root = TRUE,
                        !.dirs[d] = IF IsSome(@) THEN @ ELSE Some(EmptyDir)]
        metadata == ListMetadata_new(list_id, t)
        f2 == [f1 EXCEPT !.dirs[d] = Some([Unwrap(@) EXCEPT !.listdata = Some(metadata)])]
        lp1 == [lp EXCEPT ![list_id] = Some(d)]
        g == read_global_metadata(f2, lp1).val
        g1 == [g EXCEPT !.list_order = Append(@, list_id)]
        g2 == IF ~IsSome(g1.last_opened_list)
              THEN [g1 EXCEPT !.last_opened_list = Some(list_id)]
              ELSE g1
        w == write_global_metadata(f2, lp1, g2)
    IN  IF w.ok THEN Ok(list_id, w.fs, lp1) ELSE w

\* Storage::list_lists: (identifier, directory name) of every directory
\* with a .listdata.json, in scan order
RECURSIVE list_lists_scan(_, _)
list_lists_scan(f, scan) ==
    IF scan = <<>> THEN <<>>
    ELSE LET d == Head(scan)
             dir == Unwrap(f.dirs[d])
         IN  IF IsSome(dir.listdata)
             THEN <<[id |-> Unwrap(dir.listdata).id, title |-> d]>>
                      \o list_lists_scan(f, Tail(scan))
             ELSE list_lists_scan(f, Tail(scan))

list_lists(f, lp, scan) ==
    IF ~f.root THEN Err("Io", f, lp) ELSE Ok(list_lists_scan(f, scan), f, lp)

\* Storage::delete_list
delete_list(f, lp, list_id) ==
    IF ~IsSome(lp[list_id]) THEN Err("ListNotFound", f, lp)
    ELSE LET d == Unwrap(lp[list_id])
         IN  IF ~dir_exists(f, d) THEN Err("Io", f, lp)
             ELSE LET f1 == [f EXCEPT !.dirs[d] = None]
                      lp1 == [lp EXCEPT ![list_id] = None]
                      g == read_global_metadata(f1, lp1).val
                      g1 == [g EXCEPT !.list_order = retain_ne(@, list_id)]
                      g2 == IF g1.last_opened_list = Some(list_id)
                            THEN [g1 EXCEPT !.last_opened_list =
                                     IF g1.list_order = <<>> THEN None
                                     ELSE Some(Head(g1.list_order))]
                            ELSE g1
                      w == write_global_metadata(f1, lp1, g2)
                  IN  IF w.ok THEN Ok(None, w.fs, lp1) ELSE w

\* ------------------------------------------------------------------ repository
\* TaskRepository methods.  t is the value chrono::Utc::now() returns.

create_task(f, lp, list_id, task, t) ==
    LET r == read_list_metadata(f, lp, list_id)
    IN  IF ~r.ok THEN r
        ELSE LET metadata == [r.val EXCEPT !.task_order = Append(@, task.id),
                                           !.updated_at = t]
                 w == write_list_metadata(f, lp, metadata)
             IN  IF ~w.ok THEN w
                 ELSE LET wt == write_task(w.fs, lp, list_id, task)
                      IN  IF ~wt.ok THEN wt ELSE Ok(task, wt.fs, lp)

get_task(f, lp, list_id, task_id, scan) == read_task(f, lp, list_id, task_id, scan)

\* a variant of update_task that writes the updated_at the caller passed
update_task_as_passed(f, lp, list_id, task0, t) ==
    LET wt == write_task(f, lp, list_id, task0)
    IN  IF ~wt.ok THEN wt
        ELSE LET r == read_list_metadata(wt.fs, lp, list_id)
             IN  IF ~r.ok THEN r
                 ELSE write_list_metadata(wt.fs, lp, [r.val EXCEPT !.updated_at = t])

update_task(f, lp, list_id, task0, t) ==
    LET task == [task0 EXCEPT !.updated_at = t]
        wt == write_task(f, lp, list_id, task)
    IN  IF ~wt.ok THEN wt
        ELSE LET r == read_list_metadata(wt.fs, lp, list_id)
             IN  IF ~r.ok THEN r
                 ELSE write_list_metadata(wt.fs, lp, [r.val EXCEPT !.updated_at = t])

\* a variant of delete_task that purges the order and leaves the list's
\* updated_at as it was
delete_task_keeps_stamp(f, lp, list_id, task_id, t, scan) ==
    LET dt == storage_delete_task(f, lp, list_id, task_id, scan)
    IN  IF ~dt.ok THEN dt
        ELSE LET r == read_list_metadata(dt.fs, lp, list_id)
             IN  IF ~r.ok THEN r
                 ELSE write_list_metadata(dt.fs, lp,
                          [r.val EXCEPT !.task_order = retain_ne(@, task_id)])

delete_task(f, lp, list_id, task_id, t, scan) ==
    LET dt == storage_delete_task(f, lp, list_id, task_id, scan)
    IN  IF ~dt.ok THEN dt
        ELSE LET r == read_list_metadata(dt.fs, lp, list_id)
             IN  IF ~r.ok THEN r
                 ELSE write_list_metadata(dt.fs, lp,
                          [r.val EXCEPT !.task_order = retain_ne(@, task_id),
                                        !.updated_at = t])

\* tasks.into_iter().map(|t| (t.id, t)).collect(): a later task replaces an
\* earlier one with the same identifier
RECURSIVE collect_task_map(_, _)
collect_task_map(tasks, map) ==
    IF tasks = <<>> THEN map
    ELSE collect_task_map(Tail(tasks),
             [id \in DOMAIN map \cup {Head(tasks).id} |->
                 IF id = Head(tasks).id THEN Head(tasks) ELSE map[id]])

EmptyMap == [id \in {} |-> None]

\* first loop of list_tasks: the tasks named by task_order, in that order
RECURSIVE ordered_by_task_order(_, _)
ordered_by_task_order(task_order, task_map) ==
    IF task_order = <<>> THEN <<>>
    ELSE (IF Head(task_order) \in DOMAIN task_map
          THEN <<task_map[Head(task_order)]>> ELSE <<>>)
             \o ordered_by_task_order(Tail(task_order), task_map)

\* a variant of the second loop that leaves out its test against task_order;
\* a listing built with it repeats the ordered tasks
RECURSIVE every_map_entry(_, _, _)
every_map_entry(iter, task_order, task_map) ==
    IF iter = <<>> THEN <<>>
    ELSE <<task_map[Head(iter)]>> \o every_map_entry(Tail(iter), task_order, task_map)

\* second loop of list_tasks: the map's entries, in the map's iteration
\* order iter, that task_order does not name
RECURSIVE not_in_task_order(_, _, _)
not_in_task_order(iter, task_order, task_map) ==
    IF iter = <<>> THEN <<>>
    ELSE (IF ~contains(task_order, Head(iter))
          THEN <<task_map[Head(iter)]>> ELSE <<>>)
             \o not_in_task_order(Tail(iter), task_order, task_map)

\* the identifiers a scan of list_id's directory yields (the map's keys)
task_map_keys(f, lp, list_id) ==
    IF IsSome(lp[list_id]) /\ dir_exists(f, Unwrap(lp[list_id]))
    THEN {parse_task_file(s, Unwrap(Unwrap(f.dirs[Unwrap(lp[list_id])]).tasks[s])).val.id :
             s \in {x \in files_in(f, Unwrap(lp[list_id])) :
                       /\ has_md_extension(x)
                       /\ parse_task_file(x, Unwrap(Unwrap(f.dirs[Unwrap(lp[list_id])]).tasks[x])).ok}}
    ELSE {}

\* TaskRepository::list_tasks; scan is the order of read_dir, iter the
\* iteration order of the HashMap
list_tasks(f, lp, list_id, scan, iter) ==
    LET ts == storage_list_tasks(f, lp, list_id, scan)
    IN  IF ~ts.ok THEN ts
        ELSE LET r == read_list_metadata(f, lp, list_id)
             IN  IF ~r.ok THEN r
                 ELSE LET task_map == collect_task_map(ts.val, EmptyMap)
                      IN  Ok(ordered_by_task_order(r.val.task_order, task_map)
                                \o not_in_task_order(iter, r.val.task_order, task_map),
                             f, lp)

complete_task(f, lp, list_id, task_id, t, scan) ==
    LET r == read_task(f, lp, list_id, task_id, scan)
    IN  IF ~r.ok THEN r ELSE update_task(f, lp, list_id, Task_complete(r.val, t), t)

uncomplete_task(f, lp, list_id, task_id, t, scan) ==
    LET r == read_task(f, lp, list_id, task_id, scan)
    IN  IF ~r.ok THEN r ELSE update_task(f, lp, list_id, Task_uncomplete(r.val, t), t)

\* a variant of the move without the removal: the identifier is inserted and
\* its old entry stays
insert_without_remove(order, id, new_position) ==
    vec_insert(order, Min(new_position, Len(order)), id)

\* a variant of the move that ignores the position asked for
move_to_end(order, id, new_position) == Append(retain_ne(order, id), id)

\* the remove-then-insert of reorder_list and reorder_task
reorder(order, id, new_position) ==
    LET removed == retain_ne(order, id)
        insert_pos == Min(new_position, Len(removed))
    IN  vec_insert(removed, insert_pos, id)

reorder_list(f, lp, list_id, new_position) ==
    LET g == read_global_metadata(f, lp).val
    IN  write_global_metadata(f, lp,
            [g EXCEPT !.list_order = reorder(@, list_id, new_position)])

reorder_task(f, lp, list_id, task_id, new_position, t) ==
    LET r == read_list_metadata(f, lp, list_id)
    IN  IF ~r.ok THEN r
        ELSE write_list_metadata(f, lp,
                 [r.val EXCEPT !.task_order = reorder(@, task_id, new_position),
                               !.updated_at = t])

get_task_order(f, lp, list_id) ==
    LET r == read_list_metadata(f, lp, list_id)
    IN  IF ~r.ok THEN r ELSE Ok(r.val.task_order, f, lp)

\* a variant of set_group_by_due_date that leaves updated_at as it was
set_group_by_due_date_keeps_stamp(f, lp, list_id, enabled, t) ==
    LET r == read_list_metadata(f, lp, list_id)
    IN  IF ~r.ok THEN r
        ELSE write_list_metadata(f, lp, [r.val EXCEPT !.group_by_due_date = enabled])

set_group_by_due_date(f, lp, list_id, enabled, t) ==
    LET r == read_list_metadata(f, lp, list_id)
    IN  IF ~r.ok THEN r
        ELSE write_list_metadata(f, lp,
                 [r.val EXCEPT !.group_by_due_date = enabled, !.updated_at = t])

\* the sort key of get_lists: position(..).unwrap_or(usize::MAX).  The key
\* is kept as the Option: None stands for usize::MAX, which no index reaches.
list_sort_key(list_order, list) == position(list_order, list.id)

\* a <= b on these keys
key_le(a, b) == IF ~IsSome(b) THEN TRUE ELSE IsSome(a) /\ Unwrap(a) <= Unwrap(b)

\* a variant of the insertion that ignores the keys
insert_first(sorted, x, list_order) == <<x>> \o sorted

\* sort_by_key is a stable sort: x is placed after every element whose key
\* is not greater than its own
insert_by_key(sorted, x, list_order) ==
    LET k == list_sort_key(list_order, x)
        n == Cardinality({i \in 1..Len(sorted) :
                             key_le(list_sort_key(list_order, sorted[i]), k)})
    IN  SubSeq(sorted, 1, n) \o <<x>> \o SubSeq(sorted, n + 1, Len(sorted))

RECURSIVE sort_by_list_order(_, _, _)
sort_by_list_order(result, sorted, list_order) ==
    IF result = <<>> THEN sorted
    ELSE sort_by_list_order(Tail(result), insert_by_key(sorted, Head(result), list_order),
                            list_order)

\* metadata.archived: the flag a list's metadata carries; metadata written
\* without the flag reads as not archived
ListMetadata_archived(metadata) ==
    IF "archived" \in DOMAIN metadata THEN metadata.archived ELSE FALSE

\* the metadata with the archived flag set to archived
with_archived(metadata, archived) ==
    [k \in DOMAIN metadata \cup {"archived"} |->
        IF k = "archived" THEN archived ELSE metadata[k]]

\* archive_list: the flag of the list's metadata is set and updated_at
\* stamped, as set_group_by_due_date does for its flag
archive_list(f, lp, list_id, archived, t) ==
    LET r == read_list_metadata(f, lp, list_id)
    IN  IF ~r.ok THEN r
        ELSE write_list_metadata(f, lp, [with_archived(r.val, archived) EXCEPT !.updated_at = t])

\* the loop of get_lists over the pairs of list_lists; scanOf and iterOf give,
\* per list, the read_dir order of its directory and its HashMap's order
RECURSIVE get_lists_loop(_, _, _, _, _)
get_lists_loop(f, lp, lists, scanOf, iterOf) ==
    IF lists = <<>> THEN Ok(<<>>, f, lp)
    ELSE LET list_id == Head(lists).id
             ts == list_tasks(f, lp, list_id, scanOf[list_id], iterOf[list_id])
         IN  IF ~ts.ok THEN ts
             ELSE LET r == read_list_metadata(f, lp, list_id)
                  IN  IF ~r.ok THEN r
                      ELSE LET rest == get_lists_loop(f, lp, Tail(lists), scanOf, iterOf)
                           IN  IF ~rest.ok THEN rest
                               ELSE Ok(<<[id |-> list_id, title |-> Head(lists).title,
                                          tasks |-> ts.val,
                                          created_at |-> r.val.created_at,
                                          updated_at |-> r.val.updated_at,
                                          group_by_due_date |-> r.val.group_by_due_date,
                                          archived |-> ListMetadata_archived(r.val)]>>
                                           \o rest.val, f, lp)

get_lists(f, lp, rootscan, scanOf, iterOf) ==
    LET ll == list_lists(f, lp, rootscan)
    IN  IF ~ll.ok THEN ll
        ELSE LET g == read_global_metadata(f, lp).val
                 result == get_lists_loop(f, lp, ll.val, scanOf, iterOf)
             IN  IF ~result.ok THEN result
                 ELSE Ok(sort_by_list_order(result.val, <<>>, g.list_order), f, lp)

\* a variant of TaskRepository::init that leaves out the default list
repository_init_without_list(f, rootscan, list_id, t) ==
    storage_init(f, storage_new(f, rootscan))

\* TaskRepository::init: a new storage object, Storage::init, and the
\* default list
repository_init(f, rootscan, list_id, t) ==
    LET lp0 == storage_new(f, rootscan)
        i == storage_init(f, lp0)
    IN  IF ~i.ok THEN i ELSE create_list(i.fs, i.lp, DefaultListName, list_id, t)

\* ------------------------------------------------------------------ state
\* the loop of find_task over the lists: the first list in which read_task
\* returns Ok ends it; a list in which read_task returns Err is passed over
RECURSIVE find_task_loop(_, _, _, _, _)
find_task_loop(f, lp, lists, task_id, scanOf) ==
    IF lists = <<>> THEN Err("TaskNotFound", f, lp)
    ELSE LET list_id == Head(lists).id
             r == read_task(f, lp, list_id, task_id, scanOf[list_id])
         IN  IF r.ok THEN Ok([list_id |-> list_id, task |-> r.val], f, lp)
             ELSE find_task_loop(f, lp, Tail(lists), task_id, scanOf)

\* TaskRepository::find_task
find_task(f, lp, task_id, rootscan, scanOf) ==
    LET lists == list_lists(f, lp, rootscan)
    IN  IF ~lists.ok THEN lists
        ELSE find_task_loop(f, lp, lists.val, task_id, scanOf)

\* TaskRepository::find_list_by_name: the first pair of list_lists whose
\* directory name is name
find_list_by_name(f, lp, name, rootscan) ==
    LET lists == list_lists(f, lp, rootscan)
    IN  IF ~lists.ok THEN lists
        ELSE LET named == SelectSeq(lists.val, LAMBDA e : e.title = name)
             IN  IF named = <<>> THEN Err("Other", f, lp) ELSE Ok(Head(named).id, f, lp)

\* ------------------------------------------------------------------ cli
\* move_task up to and with repo.delete_task(source_list_id, task_id)?: the
\* repository is opened (openscan), the task and the target list are found
\* (findscan, scanOf; namescan), and the task is deleted from its source list
\* (scan); the value is what the rest of the command works with
move_task_delete(f, task_id, target_list, openscan, findscan, namescan, scanOf, scan, t) ==
    LET lp == storage_new(f, openscan)
        found == find_task(f, lp, task_id, findscan, scanOf)
        target == find_list_by_name(f, lp, target_list, namescan)
    IN  IF ~found.ok THEN found
        ELSE IF ~target.ok THEN target
        ELSE IF found.val.list_id = target.val THEN Err("AlreadyInList", f, lp)
        ELSE LET deleted == delete_task(f, lp, found.val.list_id, task_id, t, scan)
             IN  IF ~deleted.ok THEN deleted
                 ELSE Ok([source |-> found.val.list_id, target |-> target.val,
                          task |-> found.val.task], deleted.fs, lp)

\* the rest of move_task: repo.create_task(target_list_id, task)?
move_task_create(f, lp, target_list_id, task, t) == create_task(f, lp, target_list_id, task, t)

\* ------------------------------------------------------------------ sync
\* SyncEngine and WebDavClient.  A path is relative to the workspace root:
\* the directory (None for the root itself) and the file name.  The remote
\* is the tree behind the WebDAV base path.
METADATA_FILE == <<".", "metadata.json">>
LIST_METADATA_FILE == <<".", "listdata.json">>

\* format!("{}.md", stem)
task_filename(stem) == stem \o <<".", "md">>

FileNames == {LIST_METADATA_FILE} \cup {task_filename(stem) : stem \in Stems}

Paths ==
    {[dir |-> None, name |-> METADATA_FILE]}
        \cup {[dir |-> Some(d), name |-> n] : d \in DirNames, n \in FileNames}

EmptyRemote == [p \in Paths |-> None]

\* the stem of the task file called name
stem_of(name) == CHOOSE stem \in Stems : task_filename(stem) = name

\* the local file at path p: its content, or None
local_read(f, p) ==
    IF ~IsSome(p.dir) THEN f.metadata
    ELSE IF ~dir_exists(f, Unwrap(p.dir)) THEN None
    ELSE IF p.name = LIST_METADATA_FILE THEN Unwrap(f.dirs[Unwrap(p.dir)]).listdata
    ELSE Unwrap(f.dirs[Unwrap(p.dir)]).tasks[stem_of(p.name)]

\* the files of the local tree
local_files(f) == {p \in Paths : IsSome(local_read(f, p))}

\* fs::create_dir_all(parent) and fs::write(path, content)
local_write(f, p, content) ==
    IF ~IsSome(p.dir) THEN [f EXCEPT !.root = TRUE, !.metadata = Some(content)]
    ELSE LET d == Unwrap(p.dir)
             dir == IF dir_exists(f, d) THEN Unwrap(f.dirs[d]) ELSE EmptyDir
         IN  [f EXCEPT !.root = TRUE,
                       !.dirs[d] = Some(IF p.name = LIST_METADATA_FILE
                                        THEN [dir EXCEPT !.listdata = Some(content)]
                                        ELSE [dir EXCEPT !.tasks[stem_of(p.name)] = Some(content)])]

\* name.starts_with('.')
starts_with_dot(name) == name # <<>> /\ Head(name) = "."

SyncResult_new ==
    [uploaded |-> <<>>, downloaded |-> <<>>, deleted_local |-> <<>>,
     deleted_remote |-> <<>>, conflicts_resolved |-> <<>>, unchanged |-> 0]

\* the outcome of a SyncEngine call: the result, the local tree, the remote
\* and the transport calls made, in the order they were made
SyncOk(result, f, remote_tree, calls) ==
    [ok |-> TRUE, result |-> Some(result), fs |-> f, remote |-> remote_tree, calls |-> calls]
SyncErr(f, remote_tree, calls) ==
    [ok |-> FALSE, result |-> None, fs |-> f, remote |-> remote_tree, calls |-> calls]

\* the entries of directory d that collect_files_recursive pushes, in the
\* order dirscan of read_dir: the files whose name does not begin with '.'
RECURSIVE collect_dir(_, _)
collect_dir(d, dirscan) ==
    IF dirscan = <<>> THEN <<>>
    ELSE (IF starts_with_dot(task_filename(Head(dirscan))) THEN <<>>
          ELSE <<[dir |-> Some(d), name |-> task_filename(Head(dirscan))]>>)
             \o collect_dir(d, Tail(dirscan))

\* a variant of collect_files_recursive that skips no entry
RECURSIVE collect_files_with_hidden(_, _, _)
collect_files_with_hidden(f, rootscan, dirscans) ==
    IF rootscan = <<>>
    THEN IF IsSome(f.metadata) THEN <<[dir |-> None, name |-> METADATA_FILE]>> ELSE <<>>
    ELSE LET d == Head(rootscan)
         IN  (IF IsSome(Unwrap(f.dirs[d]).listdata)
              THEN <<[dir |-> Some(d), name |-> LIST_METADATA_FILE]>> ELSE <<>>)
             \o [i \in 1..Len(dirscans[d]) |->
                    [dir |-> Some(d), name |-> task_filename(dirscans[d][i])]]
             \o collect_files_with_hidden(f, Tail(rootscan), dirscans)

\* collect_files_recursive from the root: the metadata files and every other
\* entry whose name begins with '.' are skipped, the directories are walked
\* in the order rootscan, each in the order dirscans gives for it
RECURSIVE collect_files_recursive(_, _, _)
collect_files_recursive(f, rootscan, dirscans) ==
    IF rootscan = <<>> THEN <<>>
    ELSE LET d == Head(rootscan)
         IN  (IF starts_with_dot(d) THEN <<>> ELSE collect_dir(d, dirscans[d]))
                \o collect_files_recursive(f, Tail(rootscan), dirscans)

\* the orders in which the walk may read the directories
DirScans(f) ==
    {c \in [DirNames -> UNION {IF dir_exists(f, d) THEN ScanOrders(f, d) ELSE {<<>>} : d \in DirNames}] :
        \A d \in DirNames : c[d] \in (IF dir_exists(f, d) THEN ScanOrders(f, d) ELSE {<<>>})}

\* get_local_files: the files the walk collects, in each order it may have
Walks(f) ==
    IF ~f.root THEN {<<>>}
    ELSE {collect_files_recursive(f, rootscan, dirscans) :
             rootscan \in RootScans(f), dirscans \in DirScans(f)}

\* WebDavClient::list_files: the listing of the server is fetched and
\* dropped, and the empty vector is returned
list_files(remote_tree) == <<>>

\* a variant of the loop of push that uploads no file the server already
\* holds with the same content
RECURSIVE push_loop_skipping_existing(_, _, _, _, _, _)
push_loop_skipping_existing(f, remote_tree, files, fail, calls, result) ==
    IF files = <<>> THEN SyncOk(result, f, remote_tree, calls)
    ELSE LET p == Head(files)
             made == Append(calls, [op |-> "put", path |-> p])
         IN  IF remote_tree[p] = local_read(f, p)
             THEN push_loop_skipping_existing(f, remote_tree, Tail(files), fail, calls, result)
             ELSE IF Len(made) = fail THEN SyncErr(f, remote_tree, made)
             ELSE push_loop_skipping_existing(f, [remote_tree EXCEPT ![p] = local_read(f, p)],
                                              Tail(files), fail, made,
                                              [result EXCEPT !.uploaded = Append(@, p)])

\* the loop of push over the collected files: read, upload, record.  The
\* transport call number fail fails (0: none does); calls were made before.
RECURSIVE push_loop(_, _, _, _, _, _)
push_loop(f, remote_tree, files, fail, calls, result) ==
    IF files = <<>> THEN SyncOk(result, f, remote_tree, calls)
    ELSE LET p == Head(files)
             made == Append(calls, [op |-> "put", path |-> p])
         IN  IF Len(made) = fail THEN SyncErr(f, remote_tree, made)
             ELSE push_loop(f, [remote_tree EXCEPT ![p] = local_read(f, p)], Tail(files),
                            fail, made, [result EXCEPT !.uploaded = Append(@, p)])

\* a variant of push that takes its uploads back when one of them fails
push_rolled_back(f, remote_tree, walk, fail, calls) ==
    LET r == push_loop(f, remote_tree, walk, fail, calls, SyncResult_new)
    IN  IF r.ok THEN r ELSE SyncErr(f, remote_tree, r.calls)

\* SyncEngine::push
push(f, remote_tree, walk, fail, calls) ==
    push_loop(f, remote_tree, walk, fail, calls, SyncResult_new)

\* the loop of pull over the listing: download, create the parent, write
RECURSIVE pull_loop(_, _, _, _, _, _)
pull_loop(f, remote_tree, listing, fail, calls, result) ==
    IF listing = <<>> THEN SyncOk(result, f, remote_tree, calls)
    ELSE LET p == Head(listing)
             made == Append(calls, [op |-> "get", path |-> p])
         IN  IF Len(made) = fail \/ ~IsSome(remote_tree[p]) THEN SyncErr(f, remote_tree, made)
             ELSE pull_loop(local_write(f, p, Unwrap(remote_tree[p])), remote_tree,
                            Tail(listing), fail, made,
                            [result EXCEPT !.downloaded = Append(@, p)])

\* SyncEngine::pull
pull(f, remote_tree, fail, calls) ==
    LET made == Append(calls, [op |-> "list", path |-> [dir |-> None, name |-> <<>>]])
    IN  IF Len(made) = fail THEN SyncErr(f, remote_tree, made)
        ELSE pull_loop(f, remote_tree, list_files(remote_tree), fail, made, SyncResult_new)

\* a variant of sync that pushes before it pulls
sync_push_first(f, remote_tree, walk, fail) ==
    LET pushed == push(f, remote_tree, walk, fail, <<>>)
    IN  IF ~pushed.ok THEN pushed
        ELSE LET pulled == pull(pushed.fs, pushed.remote, fail, pushed.calls)
             IN  IF ~pulled.ok THEN pulled
                 ELSE SyncOk([SyncResult_new EXCEPT
                                 !.uploaded = Unwrap(pushed.result).uploaded,
                                 !.downloaded = Unwrap(pulled.result).downloaded],
                             pulled.fs, pulled.remote, pulled.calls)

\* SyncEngine::sync: pull, then push what the walk finds after the pull
sync(f, remote_tree, walk, fail) ==
    LET pulled == pull(f, remote_tree, fail, <<>>)
    IN  IF ~pulled.ok THEN pulled
        ELSE LET pushed == push(pulled.fs, pulled.remote, walk, fail, pulled.calls)
             IN  IF ~pushed.ok THEN pushed
                 ELSE SyncOk([uploaded |-> Unwrap(pushed.result).uploaded,
                              downloaded |-> Unwrap(pulled.result).downloaded,
                              deleted_local |-> Unwrap(pulled.result).deleted_local,
                              deleted_remote |-> Unwrap(pushed.result).deleted_remote,
                              conflicts_resolved |-> <<>>,
                              unchanged |-> 0],
                             pushed.fs, pushed.remote, pushed.calls)

\* WebDavClient::exists: the path is listed with depth 0; listed says
\* whether that transport call went through
webdav_exists(listed) == [ok |-> TRUE, val |-> listed]

\* Result::unwrap_or
unwrap_or(r, default) == IF r.ok THEN r.val ELSE default

\* SyncEngine::status, the walk of the local tree having gone through
SyncEngine_status(f, walk, listed) ==
    [ok |-> TRUE,
     val |-> [connected |-> unwrap_or(webdav_exists(listed), FALSE),
              last_sync |-> None,
              local_changes |-> Len(walk),
              remote_changes |-> 0,
              webdav_url |-> <<>>]]

\* the transport calls a sync of the tree f can make: the listing and one
\* upload for each file; FailPoints also holds 0, no failure
FailPoints(f) == 0..(1 + Cardinality(local_files(f)))

\* ------------------------------------------------------------------ config
\* AppConfig: workspaces is a HashMap from name to WorkspaceConfig, here a
\* function from the names to Option<WorkspaceConfig>.
WorkspaceNames == {"test1", "test2", "test3"}
WorkspacePaths == {"dir1", "dir2"}

AppConfig_default ==
    [workspaces |-> [n \in WorkspaceNames |-> None], current_workspace |-> None]

ConfigOk(cfg) == [ok |-> TRUE, err |-> "", config |-> cfg]
ConfigErr(e, cfg) == [ok |-> FALSE, err |-> e, config |-> cfg]

contains_key(cfg, name) == IsSome(cfg.workspaces[name])

\* a variant of add_workspace that inserts before it looks for the name
add_workspace_insert_first(cfg, name, path) ==
    LET inserted == [cfg EXCEPT !.workspaces[name] =
                        Some([path |-> path, webdav_url |-> None, last_sync |-> None])]
    IN  IF contains_key(cfg, name) THEN ConfigErr("WorkspaceAlreadyExists", inserted)
        ELSE ConfigOk(IF ~IsSome(cfg.current_workspace)
                      THEN [inserted EXCEPT !.current_workspace = Some(name)]
                      ELSE inserted)

add_workspace(cfg, name, path) ==
    IF contains_key(cfg, name) THEN ConfigErr("WorkspaceAlreadyExists", cfg)
    ELSE LET inserted == [cfg EXCEPT !.workspaces[name] =
                             Some([path |-> path, webdav_url |-> None, last_sync |-> None])]
         IN  ConfigOk(IF ~IsSome(cfg.current_workspace)
                      THEN [inserted EXCEPT !.current_workspace = Some(name)]
                      ELSE inserted)

\* a variant of remove_workspace that removes the current workspace too
remove_workspace_even_current(cfg, name) ==
    IF ~contains_key(cfg, name) THEN ConfigErr("WorkspaceNotFound", cfg)
    ELSE ConfigOk([cfg EXCEPT !.workspaces[name] = None])

remove_workspace(cfg, name) ==
    IF ~contains_key(cfg, name) THEN ConfigErr("WorkspaceNotFound", cfg)
    ELSE IF cfg.current_workspace = Some(name)
         THEN ConfigErr("CannotRemoveCurrentWorkspace", cfg)
         ELSE ConfigOk([cfg EXCEPT !.workspaces[name] = None])

switch_workspace(cfg, name) ==
    IF ~contains_key(cfg, name) THEN ConfigErr("WorkspaceNotFound", cfg)
    ELSE ConfigOk([cfg EXCEPT !.current_workspace = Some(name)])

update_workspace_path(cfg, name, new_path) ==
    IF ~contains_key(cfg, name) THEN ConfigErr("WorkspaceNotFound", cfg)
    ELSE ConfigOk([cfg EXCEPT !.workspaces[name] = Some([Unwrap(@) EXCEPT !.path = new_path])])

\* ------------------------------------------------------------------ instances
\* Two TaskRepository instances opened on one workspace.  A create_task
\* call is three statements: read_list_metadata into the instance's own
\* copy, write_list_metadata of that copy with the identifier pushed, and
\* write_task.
Instances == {1, 2}

Idle == [pc |-> "idle", list_id |-> None, task |-> None, metadata |-> None]

\* a variant of the metadata write of create_task that reads the metadata
\* again right before it writes
create_task_write_metadata_reread(f, lp, metadata, task, t) ==
    LET r == read_list_metadata(f, lp, metadata.id)
    IN  IF ~r.ok THEN r
        ELSE write_list_metadata(f, lp, [r.val EXCEPT !.task_order = Append(@, task.id),
                                                      !.updated_at = t])

\* create_task from the push on the copy it read to write_list_metadata
create_task_write_metadata(f, lp, metadata, task, t) ==
    write_list_metadata(f, lp, [metadata EXCEPT !.task_order = Append(@, task.id),
                                                !.updated_at = t])

VARIABLES
    fs,          \* the workspace directory tree
    list_paths,  \* FileSystemStorage.list_paths of the open repository
    now,         \* the clock
    next_uuid,   \* the next list identifier Uuid::new_v4() yields
    issued,      \* history: the task identifiers Task::new has drawn
    created,     \* history: per list, the tasks created in it and not deleted
    last,        \* history: the name of the last call that returned
    remote,      \* the tree on the WebDAV server
    synced,      \* history: the outcome of the last SyncEngine call
    inflight,    \* per repository instance, the call it is in and how far it is
    config       \* the AppConfig

vars == <<fs, list_paths, now, next_uuid, issued, created, last, remote, synced,
          inflight, config>>

\* the tasks a caller builds with Task::new(title)
NewTasks == {Task_new(id, title, now) : id \in TaskIds, title \in Titles}

\* the same with the due date and the status set afterwards
TaskInputs ==
    {[task EXCEPT !.status = st, !.due_date = due] :
        task \in NewTasks, st \in TaskStatus, due \in DueDates}

\* the orders read_dir may give for l's directory, and the orders the HashMap
\* of list_tasks may iterate in
ScanOfIn(f, lp, l) ==
    IF IsSome(lp[l]) /\ dir_exists(f, Unwrap(lp[l]))
    THEN ScanOrders(f, Unwrap(lp[l]))
    ELSE {<<>>}

IterOfIn(f, lp, l) == Perms(task_map_keys(f, lp, l))

ScanOf(l) == ScanOfIn(fs, list_paths, l)

IterOf(l) == IterOfIn(fs, list_paths, l)

\* one order per list, for get_lists
ScanChoices(f, lp) ==
    {c \in [ListIds -> UNION {ScanOfIn(f, lp, l) : l \in ListIds}] :
        \A l \in ListIds : c[l] \in ScanOfIn(f, lp, l)}

IterChoices(f, lp) ==
    {c \in [ListIds -> UNION {IterOfIn(f, lp, l) : l \in ListIds}] :
        \A l \in ListIds : c[l] \in IterOfIn(f, lp, l)}

NoHistory ==
    /\ issued = {}
    /\ created = [l \in ListIds |-> {}]

\* no repository instance is in a create_task call
NoCallInFlight == inflight = [p \in Instances |-> Idle]

\* the server holds nothing yet and no SyncEngine call was made
NoSync ==
    /\ remote = EmptyRemote
    /\ synced = SyncOk(SyncResult_new, EmptyFs, EmptyRemote, <<>>)

\* the empty disk, before any workspace is made
InitEmpty ==
    /\ fs = EmptyFs
    /\ list_paths = NoPaths
    /\ now = 0
    /\ next_uuid = 1
    /\ NoHistory
    /\ NoSync
    /\ NoCallInFlight
    /\ config = AppConfig_default
    /\ last = "new"

\* the repository TaskRepository::init returns on an empty disk
Init ==
    LET r == repository_init(EmptyFs, <<>>, 1, 0)
    IN  /\ fs = r.fs
        /\ list_paths = r.lp
        /\ now = 0
        /\ next_uuid = 2
        /\ NoHistory
        /\ NoSync
        /\ NoCallInFlight
        /\ config = AppConfig_default
        /\ last = "init"

\* a call that returned Ok(..) with result r; a call that returns Err is no step
Apply(name, r) ==
    /\ r.ok
    /\ fs' = r.fs
    /\ list_paths' = r.lp
    /\ last' = name
    /\ UNCHANGED <<remote, synced, inflight, config>>

\* a call that returned with result r, Ok or Err: what it wrote before it
\* failed stays; last is the name of the call when it returned Ok and the
\* kind of the error when it returned Err
Returns(name, r) ==
    /\ fs' = r.fs
    /\ list_paths' = r.lp
    /\ last' = IF r.ok THEN name ELSE r.err
    /\ UNCHANGED <<remote, synced, inflight, config>>

Tick ==
    /\ now < MaxClock
    /\ now' = now + 1
    /\ UNCHANGED <<fs, list_paths, next_uuid, issued, created, last, remote, synced,
                   inflight, config>>

\* TaskRepository::new on the workspace as it is
Open ==
    \E scan \in RootScans(fs) :
        /\ list_paths' = storage_new(fs, scan)
        /\ last' = "new"
        /\ UNCHANGED <<fs, now, next_uuid, issued, created, remote, synced, inflight, config>>

RepositoryInit ==
    /\ next_uuid <= MaxLists
    /\ \E scan \in RootScans(fs) :
          Apply("init", repository_init(fs, scan, next_uuid, now))
    /\ next_uuid' = next_uuid + 1
    /\ UNCHANGED <<now, issued, created>>

StorageInit ==
    /\ Apply("storage_init", storage_init(fs, list_paths))
    /\ UNCHANGED <<now, next_uuid, issued, created>>

CreateList(name) ==
    /\ next_uuid <= MaxLists
    /\ Apply("create_list", create_list(fs, list_paths, name, next_uuid, now))
    /\ next_uuid' = next_uuid + 1
    /\ UNCHANGED <<now, issued, created>>

DeleteList(l) ==
    /\ Apply("delete_list", delete_list(fs, list_paths, l))
    /\ UNCHANGED <<now, next_uuid, issued, created>>

ReorderList(l, p) ==
    /\ Apply("reorder_list", reorder_list(fs, list_paths, l, p))
    /\ UNCHANGED <<now, next_uuid, issued, created>>

SetGroupByDueDate(l, b) ==
    /\ Apply("set_group_by_due_date", set_group_by_due_date(fs, list_paths, l, b, now))
    /\ UNCHANGED <<now, next_uuid, issued, created>>

ArchiveList(l, b) ==
    /\ Apply("archive_list", archive_list(fs, list_paths, l, b, now))
    /\ UNCHANGED <<now, next_uuid, issued, created>>

\* the order may not grow past MaxOrderLen
OrderHasRoom(l) ==
    LET r == read_list_metadata(fs, list_paths, l)
    IN  r.ok => Len(r.val.task_order) < MaxOrderLen

CreateTask(l, task) ==
    /\ OrderHasRoom(l)
    /\ Apply("create_task", create_task(fs, list_paths, l, task, now))
    /\ UNCHANGED <<now, next_uuid, issued, created>>

UpdateTask(l, task) ==
    /\ Apply("update_task", update_task(fs, list_paths, l, task, now))
    /\ UNCHANGED <<now, next_uuid, issued, created>>

DeleteTask(l, id) ==
    /\ \E scan \in ScanOf(l) :
          Apply("delete_task", delete_task(fs, list_paths, l, id, now, scan))
    /\ UNCHANGED <<now, next_uuid, issued, created>>

ReorderTask(l, id, p) ==
    /\ Apply("reorder_task", reorder_task(fs, list_paths, l, id, p, now))
    /\ UNCHANGED <<now, next_uuid, issued, created>>

CompleteTask(l, id) ==
    /\ \E scan \in ScanOf(l) :
          Apply("complete_task", complete_task(fs, list_paths, l, id, now, scan))
    /\ UNCHANGED <<now, next_uuid, issued, created>>

UncompleteTask(l, id) ==
    /\ \E scan \in ScanOf(l) :
          Apply("uncomplete_task", uncomplete_task(fs, list_paths, l, id, now, scan))
    /\ UNCHANGED <<now, next_uuid, issued, created>>

\* a SyncEngine call with outcome r, whether it returned Ok or Err: the
\* transfers made before a failure stay
ApplySync(name, r) ==
    /\ fs' = r.fs
    /\ remote' = r.remote
    /\ synced' = r
    /\ last' = name
    /\ UNCHANGED <<list_paths, now, next_uuid, issued, created, inflight, config>>

SyncPush ==
    \E walk \in Walks(fs), fail \in FailPoints(fs) :
        ApplySync("sync_push", push(fs, remote, walk, fail, <<>>))

SyncPull ==
    \E fail \in FailPoints(fs) :
        ApplySync("sync_pull", pull(fs, remote, fail, <<>>))

Sync ==
    \E fail \in FailPoints(fs) :
        \E walk \in Walks(pull(fs, remote, fail, <<>>).fs) :
            ApplySync("sync", sync(fs, remote, walk, fail))

\* the statements of create_task in instance p
CreateTaskRead(p, l, task) ==
    LET r == read_list_metadata(fs, list_paths, l)
    IN  /\ inflight[p].pc = "idle"
        /\ r.ok
        /\ inflight' = [inflight EXCEPT ![p] = [pc |-> "read", list_id |-> Some(l),
                                                task |-> Some(task), metadata |-> Some(r.val)]]
        /\ UNCHANGED <<fs, list_paths, now, next_uuid, issued, created, last, remote, synced,
                       config>>

CreateTaskWriteMetadata(p) ==
    /\ inflight[p].pc = "read"
    /\ LET w == create_task_write_metadata(fs, list_paths, Unwrap(inflight[p].metadata),
                                           Unwrap(inflight[p].task), now)
       IN  /\ w.ok
           /\ fs' = w.fs
    /\ inflight' = [inflight EXCEPT ![p].pc = "metadata written"]
    /\ UNCHANGED <<list_paths, now, next_uuid, issued, created, last, remote, synced, config>>

CreateTaskWriteTask(p) ==
    /\ inflight[p].pc = "metadata written"
    /\ LET wt == write_task(fs, list_paths, Unwrap(inflight[p].list_id), Unwrap(inflight[p].task))
       IN  /\ wt.ok
           /\ fs' = wt.fs
    /\ inflight' = [inflight EXCEPT ![p].pc = "returned"]
    /\ last' = "create_task"
    /\ UNCHANGED <<list_paths, now, next_uuid, issued, created, remote, synced, config>>

\* the statements of the CLI command move_task, run by instance 1: the
\* command is not started when the target's task order is full
\* the orders in which delete_task may read the directory of the list that
\* find_task found the task in
SourceScansOf(f, lp, found) ==
    IF found.ok THEN ScanOfIn(f, lp, found.val.list_id) ELSE {}

SourceScans(f, lp, task_id, findscan, scanOf) ==
    SourceScansOf(f, lp, find_task(f, lp, task_id, findscan, scanOf))

\* move_task has deleted the task from its source list with result r and
\* holds the task in memory
MoveTaskDeleted(r) ==
    /\ r.ok
    /\ Len(get_task_order(fs, r.lp, r.val.target).val) < MaxOrderLen
    /\ fs' = r.fs
    /\ list_paths' = r.lp
    /\ inflight' = [inflight EXCEPT ![1] =
                       [pc |-> "deleted", list_id |-> Some(r.val.target),
                        task |-> Some(r.val.task),
                        metadata |-> None, source |-> r.val.source]]
    /\ last' = "delete_task"
    /\ UNCHANGED <<now, next_uuid, issued, created, remote, synced, config>>

MoveTaskDelete(task_id, target_list) ==
    /\ inflight[1].pc # "deleted"
    /\ \E openscan \in RootScans(fs), findscan \in RootScans(fs) :
          \E scanOf \in ScanChoices(fs, storage_new(fs, openscan)) :
              \E scan \in SourceScans(fs, storage_new(fs, openscan), task_id, findscan, scanOf) :
                  MoveTaskDeleted(move_task_delete(fs, task_id, target_list, openscan,
                                                   findscan, openscan, scanOf, scan, now))

MoveTaskCreate ==
    /\ inflight[1].pc = "deleted"
    /\ LET r == move_task_create(fs, list_paths, Unwrap(inflight[1].list_id),
                                 Unwrap(inflight[1].task), now)
       IN  /\ r.ok
           /\ fs' = r.fs
    /\ inflight' = [inflight EXCEPT ![1].pc = "moved"]
    /\ last' = "move_task"
    /\ UNCHANGED <<list_paths, now, next_uuid, issued, created, remote, synced, config>>

\* an AppConfig call with result r: last is the name of the call when it
\* returned Ok, and the kind of the error when it returned Err
ConfigCall(name, r) ==
    /\ config' = r.config
    /\ last' = IF r.ok THEN name ELSE r.err
    /\ UNCHANGED <<fs, list_paths, now, next_uuid, issued, created, remote, synced, inflight>>

AddWorkspace(name, path) == ConfigCall("add_workspace", add_workspace(config, name, path))

RemoveWorkspace(name) == ConfigCall("remove_workspace", remove_workspace(config, name))

SwitchWorkspace(name) == ConfigCall("switch_workspace", switch_workspace(config, name))

UpdateWorkspacePath(name, path) ==
    ConfigCall("update_workspace_path", update_workspace_path(config, name, path))

\* ------------------------------------------------------------------ Spec
\* The task operations of the repository on the workspace that
\* TaskRepository::init made.  A task is created once: Task::new gives it an
\* identifier that the list's order does not hold yet.  update_task is called
\* with any task, also one that was never created or whose title changed.
NewId(l, task) ==
    LET r == read_list_metadata(fs, list_paths, l)
    IN  r.ok => ~contains(r.val.task_order, task.id)

Next ==
    \/ \E l \in ListIds, task \in NewTasks : NewId(l, task) /\ CreateTask(l, task)
    \/ \E l \in ListIds, task \in NewTasks : UpdateTask(l, task)
    \/ \E l \in ListIds, id \in Uuids : DeleteTask(l, id)
    \/ \E l \in ListIds, id \in Uuids, p \in Positions : ReorderTask(l, id, p)

Spec == Init /\ [][Next]_vars

\* ------------------------------------------------------------------ SpecCreateDeleteReorder
\* Tasks made by Task::new (each with an identifier of its own) are created,
\* deleted and reordered; created records the tasks created and not deleted.
CreateNewTask(l, task) ==
    /\ task.id \notin issued
    /\ Apply("create_task", create_task(fs, list_paths, l, task, now))
    /\ issued' = issued \cup {task.id}
    /\ created' = [created EXCEPT ![l] = @ \cup {task.id}]
    /\ UNCHANGED <<now, next_uuid>>

DeleteCreatedTask(l, id) ==
    /\ \E scan \in ScanOf(l) :
          Apply("delete_task", delete_task(fs, list_paths, l, id, now, scan))
    /\ created' = [created EXCEPT ![l] = @ \ {id}]
    /\ UNCHANGED <<now, next_uuid, issued>>

\* Task::new with a title that is not empty
NamedTasks == {task \in NewTasks : task.title # <<>>}

NextCreateDeleteReorder ==
    \/ \E l \in ListIds, task \in NamedTasks : CreateNewTask(l, task)
    \/ \E l \in ListIds, id \in Uuids : DeleteCreatedTask(l, id)
    \/ \E l \in ListIds, id \in Uuids, p \in Positions : ReorderTask(l, id, p)

SpecCreateDeleteReorder == Init /\ [][NextCreateDeleteReorder]_vars

\* ------------------------------------------------------------------ SpecReorder
\* reorder_task and reorder_list with any identifier and position, on the
\* workspace that TaskRepository::init made, with tasks of one title.
TitledA == {Task_new(id, <<"a">>, now) : id \in Uuids}

\* reorder_list rewrites only metadata.json and the task operations only the
\* list's directory: the lists are reordered in a workspace whose lists are
\* as init left them, the tasks in one whose list order is as init left it
InitialWorkspace == repository_init(EmptyFs, <<>>, 1, 0).fs

NextReorder ==
    \/ \E l \in ListIds, task \in TitledA :
          fs.metadata = InitialWorkspace.metadata /\ CreateTask(l, task)
    \/ \E l \in ListIds, id \in Uuids, p \in Positions :
          fs.metadata = InitialWorkspace.metadata /\ ReorderTask(l, id, p)
    \/ \E l \in Uuids, p \in Positions :
          fs.dirs = InitialWorkspace.dirs /\ ReorderList(l, p)

SpecReorder == Init /\ [][NextReorder]_vars

\* ------------------------------------------------------------------ SpecLists
\* The list operations on the workspace that TaskRepository::init made, each
\* command on a repository opened anew or on the one already open, with one
\* task to put in a list.  reorder_list is called with the identifier of a
\* list that was created.
OneTask == {Task_new(1, <<"a">>, now)}

NoTaskFiles == \A d \in DirNames : dir_exists(fs, d) => files_in(fs, d) = {}

NextLists ==
    \/ Open
    \/ \E name \in ListNames : CreateList(name)
    \/ \E l \in ListIds : DeleteList(l)
    \/ \E l \in Uuids, p \in Positions : l < next_uuid /\ ReorderList(l, p)
    \/ \E l \in ListIds, task \in OneTask : NoTaskFiles /\ CreateTask(l, task)

SpecLists == Init /\ [][NextLists]_vars

\* ------------------------------------------------------------------ SpecInit
\* Workspaces are made on the empty disk with Storage::init and
\* TaskRepository::init, which are also called on a workspace that is
\* already there; lists are created, reordered and deleted and one task is
\* put in a list.
NextInit ==
    \/ StorageInit
    \/ RepositoryInit
    \/ Open
    \/ \E name \in ListNames : CreateList(name)
    \/ \E l \in ListIds : DeleteList(l)
    \/ \E l \in Uuids, p \in Positions : l < next_uuid /\ ReorderList(l, p)
    \/ \E l \in ListIds, task \in OneTask : NoTaskFiles /\ CreateTask(l, task)

SpecInit == InitEmpty /\ [][NextInit]_vars

\* ------------------------------------------------------------------ SpecOpen
\* TaskRepository::new on a workspace directory as it is found: any of the
\* directories may be there, with or without a .listdata.json, and the list
\* order of metadata.json names any identifiers (another process, a copy or
\* an interrupted create_list leaves lists that the order does not name).
ListOrders ==
    UNION {{o \in [1..n -> Uuids] : \A i, j \in 1..n : o[i] = o[j] => i = j} : n \in 0..MaxUuid}

FoundDirs ==
    {None, Some(EmptyDir)}
        \cup {Some([EmptyDir EXCEPT !.listdata = Some(ListMetadata_new(id, 0))]) : id \in Uuids}

FoundWorkspaces ==
    {[root |-> TRUE,
      metadata |-> Some([GlobalMetadata_default EXCEPT !.list_order = o]),
      dirs |-> ds] :
        o \in ListOrders,
        ds \in {x \in [DirNames -> FoundDirs] :
                  \A d1, d2 \in DirNames :
                      (/\ IsSome(x[d1]) /\ IsSome(x[d2]) /\ d1 # d2
                       /\ IsSome(Unwrap(x[d1]).listdata) /\ IsSome(Unwrap(x[d2]).listdata))
                      => Unwrap(Unwrap(x[d1]).listdata).id # Unwrap(Unwrap(x[d2]).listdata).id}}

InitOpen ==
    /\ fs \in FoundWorkspaces
    /\ \E scan \in RootScans(fs) : list_paths = storage_new(fs, scan)
    /\ now = 0
    /\ next_uuid = MaxUuid + 1
    /\ NoHistory
    /\ NoSync
    /\ NoCallInFlight
    /\ config = AppConfig_default
    /\ last = "new"

NextOpen ==
    \/ Open
    \/ \E l \in Uuids, p \in Positions : ReorderList(l, p)
    \/ \E l \in ListIds : DeleteList(l)

SpecOpen == InitOpen /\ [][NextOpen]_vars

\* ------------------------------------------------------------------ properties
\* the stored task order of list l (empty when the list cannot be read)
TaskOrder(f, lp, l) ==
    LET r == get_task_order(f, lp, l) IN IF r.ok THEN r.val ELSE <<>>

\* the lists the open repository can read
OpenLists == {l \in ListIds : read_list_metadata(fs, list_paths, l).ok}

\* the identifiers of a sequence of tasks
IdsOf(tasks) == [i \in 1..Len(tasks) |-> tasks[i].id]

NoDuplicates(s) == \A i, j \in 1..Len(s) : s[i] = s[j] => i = j

\* the identifiers that the files of l's directory carry, whatever their names
CarriedIds(f, lp, l) ==
    IF IsSome(lp[l]) /\ dir_exists(f, Unwrap(lp[l]))
    THEN {frontmatter_of(Unwrap(Unwrap(f.dirs[Unwrap(lp[l])]).tasks[s])).id :
             s \in files_in(f, Unwrap(lp[l]))}
    ELSE {}

\* C1: in every list, after createTask calls and any deleteTask and
\* reorderTask calls, listTasks returns exactly the identifiers of the tasks
\* created and not deleted, each once, those named by the task order first
\* and in that order.
C1_ListTasksReturnsSurvivors ==
    \A l \in OpenLists : \A scan \in ScanOf(l), iter \in IterOf(l) :
        LET r == list_tasks(fs, list_paths, l, scan, iter)
            ids == IdsOf(r.val)
            declared == SelectSeq(TaskOrder(fs, list_paths, l), LAMBDA x : x \in created[l])
        IN  /\ r.ok
            /\ Range(ids) = created[l]
            /\ NoDuplicates(ids)
            /\ Len(ids) >= Len(declared)
            /\ SubSeq(ids, 1, Len(declared)) = declared

\* C2: for any state of a list on disk, listTasks returns first the tasks the
\* task order names, in that order and without the entries that have no
\* file, and then every task of the directory that the order does not name.
C2_ListTasksDeclaredThenDrift ==
    \A l \in OpenLists : \A scan \in ScanOf(l), iter \in IterOf(l) :
        LET r == list_tasks(fs, list_paths, l, scan, iter)
            ids == IdsOf(r.val)
            order == TaskOrder(fs, list_paths, l)
            found == {t.id : t \in Range(list_tasks_scan(fs, Unwrap(list_paths[l]), scan, <<>>).val)}
            declared == SelectSeq(order, LAMBDA x : x \in found)
            drifted == SubSeq(ids, Len(declared) + 1, Len(ids))
        IN  /\ r.ok
            /\ Len(ids) >= Len(declared)
            /\ SubSeq(ids, 1, Len(declared)) = declared
            /\ Range(drifted) = found \ Range(order)
            /\ NoDuplicates(drifted)
            /\ Range(r.val) \subseteq Range(list_tasks_scan(fs, Unwrap(list_paths[l]), scan, <<>>).val)

\* a list whose order names a task without a file and whose directory holds
\* a task the order does not name, both kinds of drift at once
C2_Witness ==
    \E l \in OpenLists :
        LET order == TaskOrder(fs, list_paths, l)
            found == task_map_keys(fs, list_paths, l)
        IN  /\ Range(order) \ found # {}
            /\ found \ Range(order) # {}
            /\ Range(order) \cap found # {}

\* C3: every identifier in a list's stored task order is carried by a task
\* file present in the list's directory.
C3_OrderEntriesHaveFiles ==
    \A l \in OpenLists :
        Range(TaskOrder(fs, list_paths, l)) \subseteq CarriedIds(fs, list_paths, l)

\* C4: a task identifier is carried by at most one task file of the
\* workspace.
C4_IdentifierInOneFile ==
    \A d1, d2 \in DirNames : \A s1, s2 \in Stems :
        (/\ dir_exists(fs, d1) /\ s1 \in files_in(fs, d1)
         /\ dir_exists(fs, d2) /\ s2 \in files_in(fs, d2)
         /\ frontmatter_of(Unwrap(Unwrap(fs.dirs[d1]).tasks[s1])).id
               = frontmatter_of(Unwrap(Unwrap(fs.dirs[d2]).tasks[s2])).id)
        => (d1 = d2 /\ s1 = s2)

\* the stored list order of the workspace
ListOrder(f) == read_global_metadata(f, NoPaths).val.list_order

\* C5: reorderTask and reorderList are idempotent for a fixed position: in
\* every state, for every identifier and position, a second call with the
\* same arguments leaves the stored order as the first call left it.
C5_ReorderIdempotent ==
    /\ \A l \in ListIds, id \in Uuids, p \in Positions :
          LET once == reorder_task(fs, list_paths, l, id, p, now)
              twice == reorder_task(once.fs, once.lp, l, id, p, now)
          IN  once.ok =>
                  /\ twice.ok
                  /\ TaskOrder(twice.fs, twice.lp, l) = TaskOrder(once.fs, once.lp, l)
    /\ \A l \in Uuids, p \in Positions :
          LET once == reorder_list(fs, list_paths, l, p)
              twice == reorder_list(once.fs, once.lp, l, p)
          IN  once.ok =>
                  /\ twice.ok
                  /\ ListOrder(twice.fs) = ListOrder(once.fs)

\* a task order of three tasks after a reorder_task
C5_Witness ==
    /\ last = "reorder_task"
    /\ \E l \in OpenLists :
          /\ Len(TaskOrder(fs, list_paths, l)) = 3
          /\ NoDuplicates(TaskOrder(fs, list_paths, l))

\* what C6 says of a move of id to position p that takes the order before
\* to the order after
MovedTo(before, after, id, p) ==
    LET others == retain_ne(before, id)
        n == Len(before)
    IN  /\ Len(after) = Len(others) + 1
        /\ after[Min(p, Len(others)) + 1] = id
        /\ retain_ne(after, id) = others
        /\ (contains(before, id) /\ NoDuplicates(before)) =>
               /\ Len(after) = n
               /\ after[Min(p, n - 1) + 1] = id

\* C6: reorderTask(L, t, p) and reorderList(l, p) take the identifier out of
\* the order and put it back at index min(p, length after the removal); an
\* identifier that was among n entries ends at index min(p, n-1), and the
\* other identifiers keep their relative order.
C6_ReorderRemoveThenInsert ==
    /\ \A l \in ListIds, id \in Uuids, p \in Positions :
          LET r == reorder_task(fs, list_paths, l, id, p, now)
          IN  r.ok => MovedTo(TaskOrder(fs, list_paths, l), TaskOrder(r.fs, r.lp, l), id, p)
    /\ \A l \in Uuids, p \in Positions :
          LET r == reorder_list(fs, list_paths, l, p)
          IN  r.ok => MovedTo(ListOrder(fs), ListOrder(r.fs), l, p)

\* tasks 1, 2, 3 created in that order and task 3 moved to the front
C6_Witness ==
    /\ last = "reorder_task"
    /\ \E l \in OpenLists : TaskOrder(fs, list_paths, l) = <<3, 1, 2>>

\* C7: a successful createTask(L, t) appends t's identifier at the end of L's
\* task order and makes getTask(L, t.id) return t with the status and the
\* due date it was created with.
C7_CreateTaskAppendsAndReadsBack ==
    \A l \in ListIds, task \in TaskInputs :
        LET r == create_task(fs, list_paths, l, task, now)
        IN  r.ok =>
                /\ TaskOrder(r.fs, r.lp, l) = Append(TaskOrder(fs, list_paths, l), task.id)
                /\ \A scan \in ScanOfIn(r.fs, r.lp, l) :
                      LET g == get_task(r.fs, r.lp, l, task.id, scan)
                      IN  /\ g.ok
                          /\ g.val.id = task.id
                          /\ g.val.status = task.status
                          /\ g.val.due_date = task.due_date

\* C8: getLists returns every list, those the list order names first and by
\* their position in it, then those it does not name, in the order in which
\* the scan of the root met them.
C8_GetListsSortedByListOrder ==
    \A rootscan \in RootScans(fs) :
    \A scanOf \in ScanChoices(fs, list_paths), iterOf \in IterChoices(fs, list_paths) :
        LET r == get_lists(fs, list_paths, rootscan, scanOf, iterOf)
            ids == IdsOf(r.val)
            met == IdsOf(list_lists_scan(fs, rootscan))
            order == ListOrder(fs)
            named(x) == x \in Range(order)
        IN  /\ r.ok
            /\ Len(ids) = Len(met)
            /\ Range(ids) = Range(met)
            /\ \A i, j \in 1..Len(ids) :
                  i < j =>
                      /\ named(ids[j]) => named(ids[i])
                      /\ (named(ids[i]) /\ named(ids[j])) =>
                            Unwrap(position(order, ids[i])) <= Unwrap(position(order, ids[j]))
            /\ SelectSeq(ids, LAMBDA x : ~named(x)) = SelectSeq(met, LAMBDA x : ~named(x))

\* three lists on disk, the scan meeting two that the list order does not
\* name before the one it names
C8_Witness ==
    \E rootscan \in RootScans(fs) :
        LET met == IdsOf(list_lists_scan(fs, rootscan))
        IN  /\ Len(met) = 3
            /\ met[1] \notin Range(ListOrder(fs))
            /\ met[2] \notin Range(ListOrder(fs))
            /\ met[3] \in Range(ListOrder(fs))

\* the identifiers of the lists found on disk
DiskListIds(f) ==
    {Unwrap(Unwrap(f.dirs[d]).listdata).id :
        d \in {x \in DirNames : dir_exists(f, x) /\ IsSome(Unwrap(f.dirs[x]).listdata)}}

LastOpened(f) == read_global_metadata(f, NoPaths).val.last_opened_list

\* C9: a successful deleteList(l) removes the list's directory with all its
\* tasks, removes l from the index and from the list order, the other entries
\* keeping their relative order; a last-opened pointer that was l becomes the
\* first entry of the new order, or none if the order is empty, and any other
\* pointer stays; getLists no longer returns l.
C9_DeleteListPurges ==
    \A l \in ListIds :
        LET r == delete_list(fs, list_paths, l)
            before == ListOrder(fs)
            after == ListOrder(r.fs)
        IN  r.ok =>
                /\ ~dir_exists(r.fs, Unwrap(list_paths[l]))
                /\ r.lp = [list_paths EXCEPT ![l] = None]
                /\ l \notin Range(after)
                /\ after = SelectSeq(before, LAMBDA x : x # l)
                /\ LastOpened(r.fs) =
                      IF LastOpened(fs) # Some(l) THEN LastOpened(fs)
                      ELSE IF after = <<>> THEN None ELSE Some(after[1])
                /\ \A rootscan \in RootScans(r.fs) :
                   \A scanOf \in ScanChoices(r.fs, r.lp), iterOf \in IterChoices(r.fs, r.lp) :
                      LET g == get_lists(r.fs, r.lp, rootscan, scanOf, iterOf)
                      IN  g.ok => l \notin Range(IdsOf(g.val))

\* a delete_list that left two of three lists in the list order and moved the
\* last-opened pointer
C9_Witness ==
    /\ last = "delete_list"
    /\ Len(ListOrder(fs)) = 2
    /\ NoDuplicates(ListOrder(fs))
    /\ LastOpened(fs) # Some(1)
    /\ LastOpened(fs) = Some(ListOrder(fs)[1])
    /\ Cardinality(DiskListIds(fs)) = 2

\* C10: a successful createList(name) adds exactly one new list, with a fresh
\* identifier, an empty task order and group-by-due-date false, appends the
\* identifier at the end of the list order, and sets the last-opened pointer
\* to it only if there was none.
C10_CreateListAddsOneList ==
    \A name \in ListNames :
        next_uuid \in Uuids =>
            LET r == create_list(fs, list_paths, name, next_uuid, now)
                m == read_list_metadata(r.fs, r.lp, next_uuid)
            IN  r.ok =>
                    /\ r.val \notin Range(ListOrder(fs)) \cup DiskListIds(fs)
                    /\ ~IsSome(list_paths[r.val])
                    /\ DiskListIds(r.fs) \ DiskListIds(fs) = {r.val}
                    /\ r.lp = [list_paths EXCEPT ![r.val] = Some(sanitize_filename(name))]
                    /\ m.ok
                    /\ m.val.task_order = <<>>
                    /\ m.val.group_by_due_date = FALSE
                    /\ ListOrder(r.fs) = Append(ListOrder(fs), r.val)
                    /\ LastOpened(r.fs) =
                          IF LastOpened(fs) = None THEN Some(r.val) ELSE LastOpened(fs)

\* a create_list that appended to a list order of two and left the pointer
\* where it was
C10_Witness ==
    /\ last = "create_list"
    /\ Len(ListOrder(fs)) = 3
    /\ LastOpened(fs) # Some(ListOrder(fs)[3])
    /\ LastOpened(fs) # None

\* C11: Storage::init is idempotent.  On a missing workspace it creates the
\* root and a metadata record with version 1, an empty list order and no
\* last-opened pointer; on a workspace that has a metadata record it leaves
\* the metadata, every list and every task as they are.
C11_StorageInitIdempotent ==
    LET r == storage_init(fs, list_paths)
        again == storage_init(r.fs, r.lp)
    IN  /\ r.ok
        /\ r.fs.root
        /\ ~IsSome(fs.metadata) =>
              /\ IsSome(r.fs.metadata)
              /\ Unwrap(r.fs.metadata).version = 1
              /\ Unwrap(r.fs.metadata).list_order = <<>>
              /\ Unwrap(r.fs.metadata).last_opened_list = None
              /\ r.fs.dirs = fs.dirs
        /\ IsSome(fs.metadata) => (r.fs = fs /\ r.lp = list_paths)
        /\ again.ok /\ again.fs = r.fs /\ again.lp = r.lp

\* Storage::init called on a workspace with two lists, a task and a
\* last-opened pointer
C11_Witness ==
    /\ last = "storage_init"
    /\ Len(ListOrder(fs)) = 2
    /\ LastOpened(fs) # None
    /\ ~NoTaskFiles

\* no list directory on disk, no entry in the list order and no pointer
NoLists ==
    /\ \A d \in DirNames : ~dir_exists(fs, d)
    /\ ListOrder(fs) = <<>>
    /\ LastOpened(fs) = None

\* C12: creating a workspace through TaskRepository::init yields exactly one
\* list, named "My Tasks", with no task, group-by-due-date false and archived
\* false; its identifier is the only entry of the list order and is the
\* last-opened pointer.
C12_InitMakesDefaultList ==
    (NoLists /\ next_uuid \in Uuids) =>
        \A rootscan \in RootScans(fs) :
            LET r == repository_init(fs, rootscan, next_uuid, now)
            IN  /\ r.ok
                /\ \A scan \in RootScans(r.fs) :
                   \A scanOf \in ScanChoices(r.fs, r.lp), iterOf \in IterChoices(r.fs, r.lp) :
                      LET g == get_lists(r.fs, r.lp, scan, scanOf, iterOf)
                      IN  /\ g.ok
                          /\ Len(g.val) = 1
                          /\ g.val[1].title = <<"My Tasks">>
                          /\ g.val[1].tasks = <<>>
                          /\ g.val[1].group_by_due_date = FALSE
                          /\ g.val[1].archived = FALSE
                          /\ ListOrder(r.fs) = <<g.val[1].id>>
                          /\ LastOpened(r.fs) = Some(g.val[1].id)

\* the workspace right after TaskRepository::init made it
C12_Witness ==
    /\ last = "init"
    /\ Cardinality(DiskListIds(fs)) = 1
    /\ Len(ListOrder(fs)) = 1
    /\ LastOpened(fs) = Some(ListOrder(fs)[1])

\* ------------------------------------------------------------------ SpecClock
\* The task operations under a clock that advances between calls, with one
\* task at a time in the workspace.  A caller of update_task passes a task it
\* read, with the title, the status and updated_at changed as it likes.
FirstTasks == {Task_new(1, title, now) : title \in Titles}

ReadableTasks(l) ==
    IF IsSome(list_paths[l]) /\ dir_exists(fs, Unwrap(list_paths[l]))
    THEN LET d == Unwrap(list_paths[l])
         IN  {parse_task_file(s, Unwrap(Unwrap(fs.dirs[d]).tasks[s])).val :
                 s \in {x \in files_in(fs, d) : has_md_extension(x)}}
    ELSE {}

UpdateInputs(l) ==
    {[task EXCEPT !.title = title, !.status = st, !.updated_at = u] :
        task \in ReadableTasks(l), title \in Titles, st \in TaskStatus, u \in Times}

NextClock ==
    \/ Tick
    \/ \E l \in ListIds, task \in FirstTasks : NoTaskFiles /\ CreateTask(l, task)
    \/ \E l \in ListIds : \E task \in UpdateInputs(l) : UpdateTask(l, task)
    \/ \E l \in ListIds, id \in TaskIds : CompleteTask(l, id)
    \/ \E l \in ListIds, id \in TaskIds : UncompleteTask(l, id)
    \/ \E l \in ListIds, id \in TaskIds : DeleteTask(l, id)

SpecClock == Init /\ [][NextClock]_vars

\* the front matter of the task file named s of list l
TaskFile(f, lp, l, s) == frontmatter_of(Unwrap(Unwrap(f.dirs[Unwrap(lp[l])]).tasks[s]))

TaskFiles(f, lp, l) ==
    IF IsSome(lp[l]) /\ dir_exists(f, Unwrap(lp[l])) THEN files_in(f, Unwrap(lp[l])) ELSE {}

\* no task file of l that is there before and after carries an older
\* updated_at after than before
NoStampDecrease(before, after, l) ==
    \A s \in TaskFiles(before, list_paths, l) \cap TaskFiles(after, list_paths, l) :
        (TaskFile(after, list_paths, l, s).id = TaskFile(before, list_paths, l, s).id)
        => TaskFile(after, list_paths, l, s).updated >= TaskFile(before, list_paths, l, s).updated

\* C13: updateTask stores the task with updated_at equal to the clock value
\* at the call, whatever updated_at the caller passed; with a clock that
\* does not go back, no stored task's updated_at decreases over updateTask,
\* complete and uncomplete, and none is earlier than the task's created_at.
C13_UpdateTaskStampsClock ==
    /\ \A l \in OpenLists : \A task \in UpdateInputs(l) :
          LET r == update_task(fs, list_paths, l, task, now)
          IN  r.ok =>
                LET stored == TaskFile(r.fs, r.lp, l, sanitize_filename(task.title))
                IN  /\ stored.id = task.id
                    /\ stored.updated = now
                    /\ stored.created = task.created_at
                    /\ NoStampDecrease(fs, r.fs, l)
    /\ \A l \in OpenLists, id \in TaskIds : \A scan \in ScanOf(l) :
          LET c == complete_task(fs, list_paths, l, id, now, scan)
              u == uncomplete_task(fs, list_paths, l, id, now, scan)
          IN  /\ c.ok => NoStampDecrease(fs, c.fs, l)
              /\ u.ok => NoStampDecrease(fs, u.fs, l)
    /\ \A l \in OpenLists : \A s \in TaskFiles(fs, list_paths, l) :
          /\ TaskFile(fs, list_paths, l, s).created <= TaskFile(fs, list_paths, l, s).updated
          /\ TaskFile(fs, list_paths, l, s).updated <= now

\* a task was updated after the clock advanced, with a caller that could
\* pass an older updated_at
C13_Witness ==
    /\ last = "update_task"
    /\ now > 0
    /\ \E l \in OpenLists : \E s \in TaskFiles(fs, list_paths, l) :
          /\ TaskFile(fs, list_paths, l, s).created < now
          /\ TaskFile(fs, list_paths, l, s).updated = now

\* the file that complete_task and uncomplete_task rewrite: the one read_task
\* found, named after the title it was read with
RewrittenFile(f, lp, l, id, scan) ==
    sanitize_filename(read_task(f, lp, l, id, scan).val.title)

\* the statement of C14 as it was made: every complete leaves the stored
\* status completed and every uncomplete leaves it open, each call makes
\* updated_at greater than it was, and after complete then uncomplete the
\* task is open with updated_at greater than created_at.
C14_EachCallBumpsStrictly ==
    \A l \in OpenLists, id \in TaskIds : \A scan \in ScanOf(l) :
        read_task(fs, list_paths, l, id, scan).ok =>
            LET s == RewrittenFile(fs, list_paths, l, id, scan)
                c == complete_task(fs, list_paths, l, id, now, scan)
            IN  /\ c.ok
                /\ TaskFile(c.fs, c.lp, l, s).status = "completed"
                /\ TaskFile(c.fs, c.lp, l, s).updated > TaskFile(fs, list_paths, l, s).updated
                /\ \A scan2 \in ScanOfIn(c.fs, c.lp, l) :
                      LET s2 == RewrittenFile(c.fs, c.lp, l, id, scan2)
                          u == uncomplete_task(c.fs, c.lp, l, id, now, scan2)
                      IN  /\ u.ok
                          /\ TaskFile(u.fs, u.lp, l, s2).status = "backlog"
                          /\ TaskFile(u.fs, u.lp, l, s2).updated > TaskFile(u.fs, u.lp, l, s2).created

\* C14: the status is a machine of two states with no terminal one: on a
\* task that can be read, complete succeeds and leaves the file it rewrote
\* completed, uncomplete succeeds and leaves it open, whatever the status
\* was; each call sets updated_at to the clock value at the call, which is
\* not less than it was; complete and then uncomplete, the clock not going
\* back, leave the task open with updated_at not earlier than created_at,
\* and later than created_at when the clock has advanced since the creation.
C14_StatusMachine ==
    \A l \in OpenLists, id \in TaskIds : \A scan \in ScanOf(l) :
        read_task(fs, list_paths, l, id, scan).ok =>
            LET s == RewrittenFile(fs, list_paths, l, id, scan)
                before == TaskFile(fs, list_paths, l, s)
                c == complete_task(fs, list_paths, l, id, now, scan)
                u == uncomplete_task(fs, list_paths, l, id, now, scan)
            IN  /\ c.ok
                /\ TaskFile(c.fs, c.lp, l, s).status = "completed"
                /\ TaskFile(c.fs, c.lp, l, s).updated = now
                /\ u.ok
                /\ TaskFile(u.fs, u.lp, l, s).status = "backlog"
                /\ TaskFile(u.fs, u.lp, l, s).updated = now
                /\ now >= before.updated
                /\ \A t2 \in {t \in Times : t >= now} :
                   \A scan2 \in ScanOfIn(c.fs, c.lp, l) :
                      LET s2 == RewrittenFile(c.fs, c.lp, l, id, scan2)
                          cu == uncomplete_task(c.fs, c.lp, l, id, t2, scan2)
                          after == TaskFile(cu.fs, cu.lp, l, s2)
                      IN  /\ cu.ok
                          /\ after.status = "backlog"
                          /\ after.updated = t2
                          /\ after.updated >= after.created
                          /\ after.created < t2 => after.updated > after.created

\* a task that was completed is open again, after the clock advanced
C14_Witness ==
    /\ last = "uncomplete_task"
    /\ \E l \in OpenLists : \E s \in TaskFiles(fs, list_paths, l) :
          /\ TaskFile(fs, list_paths, l, s).status = "backlog"
          /\ TaskFile(fs, list_paths, l, s).updated = now
          /\ TaskFile(fs, list_paths, l, s).created < now

\* the updated_at of list l's stored metadata
ListUpdatedAt(f, lp, l) == read_list_metadata(f, lp, l).val.updated_at

\* C15: every successful createTask, updateTask, deleteTask, complete and
\* uncomplete rewrites the owning list's metadata with updated_at equal to
\* the clock value at the call; so the list's updated_at is never older than
\* the updated_at of any task stored in it, and never older than it was.
C15_MutationStampsList ==
    \A l \in OpenLists :
        /\ \A task \in NewTasks :
              LET r == create_task(fs, list_paths, l, task, now)
              IN  r.ok => ListUpdatedAt(r.fs, r.lp, l) = now
        /\ \A task \in UpdateInputs(l) :
              LET r == update_task(fs, list_paths, l, task, now)
              IN  r.ok => ListUpdatedAt(r.fs, r.lp, l) = now
        /\ \A id \in TaskIds : \A scan \in ScanOf(l) :
              LET d == delete_task(fs, list_paths, l, id, now, scan)
                  c == complete_task(fs, list_paths, l, id, now, scan)
                  u == uncomplete_task(fs, list_paths, l, id, now, scan)
              IN  /\ d.ok => ListUpdatedAt(d.fs, d.lp, l) = now
                  /\ c.ok => ListUpdatedAt(c.fs, c.lp, l) = now
                  /\ u.ok => ListUpdatedAt(u.fs, u.lp, l) = now
        /\ ListUpdatedAt(fs, list_paths, l) <= now
        /\ \A s \in TaskFiles(fs, list_paths, l) :
              TaskFile(fs, list_paths, l, s).updated <= ListUpdatedAt(fs, list_paths, l)

\* a task was deleted after the clock advanced, and the list carries the
\* time of the deletion
C15_Witness ==
    /\ last = "delete_task"
    /\ now > 0
    /\ \E l \in OpenLists :
          /\ ListUpdatedAt(fs, list_paths, l) = now
          /\ read_list_metadata(fs, list_paths, l).val.created_at < now

\* C16: a successful deleteTask(L, t) removes the file carrying t and purges
\* t from L's task order, so that getTask(L, t) then fails with NotFound;
\* when no file of L carries t, deleteTask fails with NotFound and leaves
\* every file, L's task order and L's timestamp as they were.
C16_DeleteTaskThenNotFound ==
    \A l \in OpenLists, id \in TaskIds : \A scan \in ScanOf(l) :
        LET r == delete_task(fs, list_paths, l, id, now, scan)
        IN  /\ r.ok =>
                /\ ~contains(TaskOrder(r.fs, r.lp, l), id)
                /\ \A scan2 \in ScanOfIn(r.fs, r.lp, l) :
                      LET g == get_task(r.fs, r.lp, l, id, scan2)
                      IN  ~g.ok /\ g.err = "TaskNotFound"
            /\ id \notin CarriedIds(fs, list_paths, l) =>
                /\ ~r.ok
                /\ r.err = "TaskNotFound"
                /\ r.fs = fs

\* ------------------------------------------------------------------ SpecCodec
\* Tasks with any description, status, due date and parent are written to
\* the workspace that TaskRepository::init made, one at a time, and deleted.
DescribedTasks ==
    {[Task_new(id, title, now) EXCEPT !.description = description, !.status = status,
                                      !.due_date = due, !.parent_id = parent] :
        id \in TaskIds, title \in Titles, description \in Descriptions,
        status \in TaskStatus, due \in DueDates, parent \in {None, Some(1)}}

NextCodec ==
    \/ NoTaskFiles /\ \E l \in OpenLists : \E task \in DescribedTasks : CreateTask(l, task)
    \/ \E l \in ListIds, id \in TaskIds : DeleteTask(l, id)

SpecCodec == Init /\ [][NextCodec]_vars

\* C17: for every task T, writing T and reading it back by its identifier
\* gives every field of T again (identifier, description, status, due date,
\* created_at, updated_at, parent), the title being the one of the file name.
C17_WriteReadRoundTrip ==
    \A l \in OpenLists, task \in DescribedTasks :
        LET w == write_task(fs, list_paths, l, task)
        IN  w.ok =>
              \A scan \in ScanOfIn(w.fs, w.lp, l) :
                  LET r == read_task(w.fs, w.lp, l, task.id, scan)
                  IN  /\ r.ok
                      /\ r.val = [task EXCEPT !.title = sanitize_filename(task.title)]

\* ------------------------------------------------------------------ SpecDocs
\* The workspace that TaskRepository::init made is found with task files
\* that another program wrote or cut short: each file of the default list
\* holds a task document cut after any number of characters, or a run of
\* hyphens.  Tasks are created and deleted in it.
Truncations(content) == {SubSeq(content, 1, n) : n \in 0..Len(content)}

Documents ==
    UNION {Truncations(serialize_task(Task_new(id, <<"a">>, 0))) : id \in TaskIds}
        \cup {chars(<<"-", "-", "-", "-", "-", "-">>)}

InitDocs ==
    LET r == repository_init(EmptyFs, <<>>, 1, 0)
        d == Unwrap(r.lp[1])
    IN  /\ \E files \in [Stems -> {None} \cup {Some(doc) : doc \in Documents}] :
              fs = [r.fs EXCEPT !.dirs[d] = Some([Unwrap(@) EXCEPT !.tasks = files])]
        /\ list_paths = r.lp
        /\ now = 0
        /\ next_uuid = 2
        /\ NoHistory
        /\ NoSync
        /\ NoCallInFlight
        /\ config = AppConfig_default
        /\ last = "init"

NextDocs ==
    \/ \E l \in OpenLists : \E task \in FirstTasks : CreateTask(l, task)
    \/ \E l \in OpenLists, id \in TaskIds : DeleteTask(l, id)

SpecDocs == InitDocs /\ [][NextDocs]_vars

\* the number of section delimiters "---" in a text, counted from the left
\* without overlap, from index i on
RECURSIVE DelimitersFrom(_, _)
DelimitersFrom(s, i) ==
    IF i + 2 > Len(s) THEN 0
    ELSE IF <<s[i].c, s[i + 1].c, s[i + 2].c>> = <<"-", "-", "-">>
         THEN 1 + DelimitersFrom(s, i + 3)
         ELSE DelimitersFrom(s, i + 1)

DelimiterCount(content) == DelimitersFrom(content, 1)

\* the text of the file stem.md in the directory of list l
FileText(l, stem) == Unwrap(Unwrap(fs.dirs[Unwrap(list_paths[l])]).tasks[stem])

\* the file stem.md of list l is one the scans decode, and it holds fewer
\* than two section delimiters
ShortFile(l, stem) ==
    /\ stem \in files_in(fs, Unwrap(list_paths[l]))
    /\ has_md_extension(stem)
    /\ DelimiterCount(FileText(l, stem)) < 2

\* the scan decodes its entry i: every entry before it is passed over, or
\* decodes to a task that does not end the scan (read_task and delete_task
\* return at the first task that carries id; list_tasks at none, id = None)
Decoded(l, scan, i, id) ==
    \A j \in 1..(i - 1) :
        has_md_extension(scan[j]) =>
            LET parsed == parse_task_file(scan[j], FileText(l, scan[j]))
            IN  parsed.ok /\ Some(parsed.val.id) # id

\* C18: decoding a task document with fewer than two section delimiters
\* fails with InvalidTaskFile and gives no task; a read_task, get_task,
\* delete_task or list_tasks call whose scan decodes such a document returns
\* that error, and the files and metadata are as they were.
C18_ShortDocumentFailsAndPropagates ==
    \A l \in OpenLists :
        /\ \A stem \in files_in(fs, Unwrap(list_paths[l])) :
              DelimiterCount(FileText(l, stem)) < 2
                  => parse_task_file(stem, FileText(l, stem)) = ParseErr("InvalidTaskFile")
        /\ \A scan \in ScanOfIn(fs, list_paths, l) :
              \A i \in 1..Len(scan) :
                  ShortFile(l, scan[i]) =>
                      /\ \A id \in TaskIds :
                            Decoded(l, scan, i, Some(id)) =>
                                /\ read_task(fs, list_paths, l, id, scan)
                                      = Err("InvalidTaskFile", fs, list_paths)
                                /\ get_task(fs, list_paths, l, id, scan)
                                      = Err("InvalidTaskFile", fs, list_paths)
                                /\ storage_delete_task(fs, list_paths, l, id, scan)
                                      = Err("InvalidTaskFile", fs, list_paths)
                                /\ delete_task(fs, list_paths, l, id, now, scan)
                                      = Err("InvalidTaskFile", fs, list_paths)
                      /\ Decoded(l, scan, i, None) =>
                            /\ storage_list_tasks(fs, list_paths, l, scan)
                                  = Err("InvalidTaskFile", fs, list_paths)
                            /\ \A iter \in IterOfIn(fs, list_paths, l) :
                                  list_tasks(fs, list_paths, l, scan, iter)
                                      = Err("InvalidTaskFile", fs, list_paths)

\* a task was created next to a file cut short after its first delimiter,
\* and a scan decodes the short file after the task's own
C18_Witness ==
    /\ last = "create_task"
    /\ \E l \in OpenLists :
          \E scan \in ScanOfIn(fs, list_paths, l) :
              /\ Len(scan) >= 2
              /\ parse_task_file(scan[1], FileText(l, scan[1])).ok
              /\ ShortFile(l, scan[2])
              /\ DelimiterCount(FileText(l, scan[2])) = 1
              /\ Decoded(l, scan, 2, None)
              /\ ~storage_list_tasks(fs, list_paths, l, scan).ok

\* ------------------------------------------------------------------ SpecSync
\* One task at a time is created, renamed through update_task and deleted
\* in the workspace that TaskRepository::init made, and the workspace is
\* pushed to, pulled from and synced with a server that holds nothing at
\* first; any transport call may fail.
Renames(l) ==
    {[task EXCEPT !.title = title] : task \in ReadableTasks(l), title \in Titles}

NextSync ==
    \/ NoTaskFiles /\ \E l \in OpenLists : \E task \in FirstTasks : CreateTask(l, task)
    \/ \E l \in OpenLists : \E task \in Renames(l) : UpdateTask(l, task)
    \/ \E l \in OpenLists, id \in TaskIds : DeleteTask(l, id)
    \/ SyncPush
    \/ SyncPull
    \/ Sync

SpecSync == Init /\ [][NextSync]_vars

\* the entries the walk of push skips: those whose name begins with '.',
\* and everything in a directory whose name does
Hidden(p) ==
    starts_with_dot(p.name) \/ (IsSome(p.dir) /\ starts_with_dot(Unwrap(p.dir)))

\* the statement of C19 as it was made: after push and then pull against an
\* empty remote, without failure, every file of the local tree is on the
\* remote and in the local tree at the same path with the same content.
C19_PushPullReproducesEveryFile ==
    remote = EmptyRemote =>
        \A walk \in Walks(fs) :
            LET pushed == push(fs, remote, walk, 0, <<>>)
                pulled == pull(pushed.fs, pushed.remote, 0, <<>>)
            IN  /\ pushed.ok
                /\ pulled.ok
                /\ \A p \in local_files(fs) :
                      /\ pulled.remote[p] = local_read(fs, p)
                      /\ local_read(pulled.fs, p) = local_read(fs, p)

\* C19: after push and then pull against an empty remote, without failure,
\* every file of the local tree whose name does not begin with '.' is on the
\* remote at the same path with the same content, the files whose name
\* begins with '.' (the metadata files, the task file of an empty title) are
\* not on the remote, the remote holds nothing else, and the local tree is
\* as it was.
C19_PushPullReproducesVisibleFiles ==
    remote = EmptyRemote =>
        \A walk \in Walks(fs) :
            LET pushed == push(fs, remote, walk, 0, <<>>)
                pulled == pull(pushed.fs, pushed.remote, 0, <<>>)
            IN  /\ pushed.ok
                /\ pulled.ok
                /\ pulled.fs = fs
                /\ \A p \in Paths :
                      pulled.remote[p] = IF Hidden(p) THEN None ELSE local_read(fs, p)

\* a workspace with a task file was pushed to the empty remote and pulled
C19_Witness ==
    /\ last = "sync_pull"
    /\ synced.ok
    /\ \E p \in Paths : IsSome(remote[p])
    /\ \A p \in Paths : remote[p] = IF Hidden(p) THEN None ELSE local_read(fs, p)

\* the transport calls of an outcome that are uploads, and those of the pull
Uploads(r) == {i \in 1..Len(r.calls) : r.calls[i].op = "put"}
Downloads(r) == {i \in 1..Len(r.calls) : r.calls[i].op = "get"}
PullCalls(r) == {i \in 1..Len(r.calls) : r.calls[i].op \in {"list", "get"}}

\* C20: sync() runs pull() to its end and only then push(): every upload is
\* issued after every call of the pull, what is uploaded is the local tree
\* as the pull left it, no upload is issued when the pull fails, and the
\* result holds the uploads of the push as uploaded and the downloads of the
\* pull as downloaded.
C20_SyncPullsThenPushes ==
    \A fail \in FailPoints(fs) :
        LET pulled == pull(fs, remote, fail, <<>>)
        IN  \A walk \in Walks(pulled.fs) :
                LET r == sync(fs, remote, walk, fail)
                IN  /\ r.calls # <<>> /\ r.calls[1].op = "list"
                    /\ \A i \in Uploads(r), j \in PullCalls(r) : j < i
                    /\ ~pulled.ok =>
                          /\ ~r.ok
                          /\ Uploads(r) = {}
                          /\ r.remote = remote
                          /\ r.fs = pulled.fs
                    /\ pulled.ok =>
                          \A i \in Uploads(r) :
                              (i < Len(r.calls) \/ r.ok) =>
                                  r.remote[r.calls[i].path] = local_read(pulled.fs, r.calls[i].path)
                    /\ r.ok =>
                          /\ pulled.ok
                          /\ Unwrap(r.result).uploaded = walk
                          /\ Len(Unwrap(r.result).uploaded) = Cardinality(Uploads(r))
                          /\ \A i \in 1..Len(walk) :
                                r.calls[Len(pulled.calls) + i] = [op |-> "put", path |-> walk[i]]
                          /\ Unwrap(r.result).downloaded = Unwrap(pulled.result).downloaded
                          /\ Len(Unwrap(r.result).downloaded) = Cardinality(Downloads(r))

\* a sync went through and uploaded a file
C20_Witness ==
    /\ last = "sync"
    /\ synced.ok
    /\ Unwrap(synced.result).uploaded # <<>>
    /\ synced.calls[1].op = "list"

\* the lists whose directory holds a file that carries the identifier id
Holders(id) ==
    {l \in OpenLists :
        \E stem \in files_in(fs, Unwrap(list_paths[l])) :
            LET parsed == parse_task_file(stem, FileText(l, stem))
            IN  parsed.ok /\ parsed.val.id = id}

\* C27: find_task(t) returns a list whose directory holds a file carrying t,
\* and the task, whenever there is such a list; it fails with TaskNotFound
\* only when no list holds t; and when read_task fails in a list with
\* another error and t is found nowhere, that error is returned, not
\* TaskNotFound.
C27_FindTaskFindsOrForwards ==
    \A id \in TaskIds :
        \A rootscan \in RootScans(fs), scanOf \in ScanChoices(fs, list_paths) :
            LET r == find_task(fs, list_paths, id, rootscan, scanOf)
            IN  /\ Holders(id) # {} =>
                      /\ r.ok
                      /\ r.val.list_id \in Holders(id)
                      /\ r.val.task.id = id
                /\ r.err = "TaskNotFound" => Holders(id) = {}
                /\ (~r.ok /\ \E l \in OpenLists :
                                read_task(fs, list_paths, l, id, scanOf[l]).err
                                    \notin {"", "TaskNotFound"})
                      => r.err # "TaskNotFound"

\* ------------------------------------------------------------------ SpecResync
\* One task at a time is created, completed and deleted in the workspace
\* that TaskRepository::init made, between pushes, pulls and syncs: the
\* server comes to hold a version of a file that the local tree has no
\* more, or has in another state.
NextResync ==
    \/ NoTaskFiles /\ \E l \in OpenLists : \E task \in FirstTasks : CreateTask(l, task)
    \/ \E l \in OpenLists, id \in TaskIds : CompleteTask(l, id)
    \/ \E l \in OpenLists, id \in TaskIds : DeleteTask(l, id)
    \/ SyncPush
    \/ SyncPull
    \/ Sync

SpecResync == Init /\ [][NextResync]_vars

\* the files the server holds
remote_files(remote_tree) == {p \in Paths : IsSome(remote_tree[p])}

\* C21: after a successful sync(), every file the server held before, at a
\* path that is not hidden, is in the local tree and on the server with the
\* content the server had before the sync, and the files that only the local
\* tree had are on the server.
C21_SyncKeepsRemoteVersion ==
    \A walk \in Walks(pull(fs, remote, 0, <<>>).fs) :
        LET r == sync(fs, remote, walk, 0)
        IN  r.ok =>
              \A p \in Paths :
                  ~Hidden(p) =>
                      /\ IsSome(remote[p]) =>
                            /\ local_read(r.fs, p) = remote[p]
                            /\ r.remote[p] = remote[p]
                      /\ (~IsSome(remote[p]) /\ IsSome(local_read(fs, p))) =>
                            r.remote[p] = local_read(fs, p)

\* C23: a successful pull() downloads every file the server holds, writes
\* each at the same relative path of the local tree, over the file that is
\* there, and returns the list of the paths it downloaded.
C23_PullDownloadsEveryRemoteFile ==
    LET r == pull(fs, remote, 0, <<>>)
    IN  /\ r.ok
        /\ Range(Unwrap(r.result).downloaded) = remote_files(remote)
        /\ \A p \in remote_files(remote) : local_read(r.fs, p) = remote[p]
        /\ \A p \in Paths \ remote_files(remote) : local_read(r.fs, p) = local_read(fs, p)

\* ------------------------------------------------------------------ SpecPush
\* A list whose name begins with '.' is created next to the default list,
\* each list gets a task and loses it, and the workspace is pushed.
HiddenListNames == {name \in ListNames : starts_with_dot(name)}

NoTaskFilesIn(l) == files_in(fs, Unwrap(list_paths[l])) = {}

NextPush ==
    \/ next_uuid = 2 /\ \E name \in HiddenListNames : CreateList(name)
    \/ \E l \in OpenLists : NoTaskFilesIn(l) /\ \E task \in FirstTasks : CreateTask(l, task)
    \/ \E l \in OpenLists, id \in TaskIds : DeleteTask(l, id)
    \/ SyncPush

SpecPush == Init /\ [][NextPush]_vars

\* the files of the local tree that are not hidden
VisibleFiles(f) == {p \in local_files(f) : ~Hidden(p)}

\* the paths of the uploads of an outcome, in the order they were made
UploadedPaths(r) ==
    LET puts == SelectSeq(r.calls, LAMBDA c : c.op = "put")
    IN  [i \in 1..Len(puts) |-> puts[i].path]

\* C22: a successful push() uploads every file of the local tree but the
\* entries whose name begins with '.' and what is beneath such directories,
\* each to its own relative path, whatever the server holds, once each, and
\* returns the list of the paths it uploaded; a second push of the unchanged
\* tree uploads the same files again.
C22_PushUploadsVisibleFiles ==
    \A walk \in Walks(fs) :
        LET r == push(fs, remote, walk, 0, <<>>)
            uploaded == Unwrap(r.result).uploaded
        IN  /\ r.ok
            /\ r.fs = fs
            /\ Range(uploaded) = VisibleFiles(fs)
            /\ Len(uploaded) = Cardinality(VisibleFiles(fs))
            /\ uploaded = UploadedPaths(r)
            /\ \A p \in Paths :
                  r.remote[p] = IF p \in VisibleFiles(fs) THEN local_read(fs, p) ELSE remote[p]
            /\ \A again \in Walks(r.fs) :
                  LET r2 == push(r.fs, r.remote, again, 0, <<>>)
                  IN  /\ r2.ok
                      /\ Range(Unwrap(r2.result).uploaded) = VisibleFiles(fs)
                      /\ Unwrap(r2.result).uploaded = UploadedPaths(r2)
                      /\ r2.remote = r.remote
                      /\ r2.fs = fs

\* a push went through that uploaded the task of the default list and left
\* out the task file of the list whose directory begins with '.'
C22_Witness ==
    /\ last = "sync_push"
    /\ synced.ok
    /\ Unwrap(synced.result).uploaded # <<>>
    /\ \E p \in local_files(fs) :
          /\ IsSome(p.dir)
          /\ starts_with_dot(Unwrap(p.dir))
          /\ ~starts_with_dot(p.name)
          /\ ~IsSome(remote[p])

\* C24: when the k-th transport call of a push or of a pull fails, the call
\* returns an error at once: the k - 1 transfers made before it stay as they
\* were made, no transfer follows the failed call, and the failed call is
\* made once.
C24_FailureAbortsAndKeeps ==
    /\ \A walk \in Walks(fs) :
          \A k \in 1..Len(walk) :
              LET r == push(fs, remote, walk, k, <<>>)
              IN  /\ ~r.ok
                  /\ r.result = None
                  /\ r.fs = fs
                  /\ r.calls = [i \in 1..k |-> [op |-> "put", path |-> walk[i]]]
                  /\ \A p \in Paths :
                        r.remote[p] = IF \E i \in 1..(k - 1) : walk[i] = p
                                      THEN local_read(fs, p)
                                      ELSE remote[p]
    /\ LET r == pull(fs, remote, 1, <<>>)
       IN  /\ ~r.ok
           /\ r.result = None
           /\ r.fs = fs
           /\ r.remote = remote
           /\ Len(r.calls) = 1
           /\ r.calls[1].op = "list"

\* a push failed at its second upload and the first upload is on the server
C24_Witness ==
    /\ last = "sync_push"
    /\ ~synced.ok
    /\ Len(synced.calls) = 2
    /\ IsSome(remote[synced.calls[1].path])
    /\ remote[synced.calls[1].path] = local_read(fs, synced.calls[1].path)
    /\ ~IsSome(remote[synced.calls[2].path])

\* C25: no operation of the sync engine returns a success value when a
\* transport call it made failed: push, pull and sync with a failing call,
\* the existence probe whose listing fails and status whose probe fails all
\* return an error.
C25_EveryFailureSurfaces ==
    /\ \A walk \in Walks(fs) :
          /\ \A k \in 1..Len(walk) : ~push(fs, remote, walk, k, <<>>).ok
          /\ \A k \in 1..(1 + Len(walk)) : ~sync(fs, remote, walk, k).ok
          /\ ~SyncEngine_status(fs, walk, FALSE).ok
    /\ ~pull(fs, remote, 1, <<>>).ok
    /\ ~webdav_exists(FALSE).ok

\* ------------------------------------------------------------------ SpecRace
\* Two repository instances on the workspace that TaskRepository::init
\* made call create_task once each, instance p with a new task of
\* identifier p, and their statements interleave in any order.
InstanceTasks(p) == {Task_new(p, title, now) : title \in Titles}

NextRace ==
    \/ \E p \in Instances : \E l \in OpenLists : \E task \in InstanceTasks(p) :
          CreateTaskRead(p, l, task)
    \/ \E p \in Instances : CreateTaskWriteMetadata(p)
    \/ \E p \in Instances : CreateTaskWriteTask(p)

SpecRace == Init /\ [][NextRace]_vars

\* instance p's create_task call has returned Ok
Returned(p) == inflight[p].pc = "returned"

\* the file that instance p's create_task call writes, as it is on disk
WrittenFile(p) ==
    Unwrap(fs.dirs[Unwrap(list_paths[Unwrap(inflight[p].list_id)])])
        .tasks[sanitize_filename(Unwrap(inflight[p].task).title)]

\* C26: create_task calls of two repository instances on one list are not
\* serialized.  An instance writes the task order it read with its own
\* identifier pushed, whatever the metadata file holds by then; run from the
\* metadata on disk the three statements do what create_task does; and when
\* both calls have returned, each task file is there and the stored order
\* names one or both of the identifiers.
C26_CreateTaskNotSerialized ==
    /\ \A p \in Instances :
          inflight[p].pc = "read" =>
              LET l == Unwrap(inflight[p].list_id)
                  task == Unwrap(inflight[p].task)
                  metadata == Unwrap(inflight[p].metadata)
                  w == create_task_write_metadata(fs, list_paths, metadata, task, now)
                  wt == write_task(w.fs, list_paths, l, task)
              IN  /\ w.ok
                  /\ TaskOrder(w.fs, list_paths, l) = Append(metadata.task_order, task.id)
                  /\ metadata = read_list_metadata(fs, list_paths, l).val
                        => wt = [create_task(fs, list_paths, l, task, now) EXCEPT !.val = None]
    /\ (\A p \in Instances : Returned(p)) =>
          /\ \A p \in Instances : IsSome(WrittenFile(p))
          /\ \A l \in OpenLists :
                TaskOrder(fs, list_paths, l) \in {<<1>>, <<2>>, <<1, 2>>, <<2, 1>>}

\* both calls returned Ok, both task files are there, each with the
\* identifier of its task, and the stored task order names one of the two
C26_Witness ==
    /\ \A p \in Instances :
          /\ Returned(p)
          /\ IsSome(WrittenFile(p))
          /\ frontmatter_of(Unwrap(WrittenFile(p))).id = p
    /\ \E l \in OpenLists : Len(TaskOrder(fs, list_paths, l)) = 1

\* ------------------------------------------------------------------ SpecConfig
\* The AppConfig from AppConfig::default() on, under its four mutating calls
\* with any name and path.
NextConfig ==
    \/ \E name \in WorkspaceNames, path \in WorkspacePaths : AddWorkspace(name, path)
    \/ \E name \in WorkspaceNames : RemoveWorkspace(name)
    \/ \E name \in WorkspaceNames : SwitchWorkspace(name)
    \/ \E name \in WorkspaceNames, path \in WorkspacePaths : UpdateWorkspacePath(name, path)

SpecConfig == Init /\ [][NextConfig]_vars

\* the names of the registered workspaces
Registered(cfg) == {n \in WorkspaceNames : contains_key(cfg, n)}

\* C29: in every AppConfig reached from the empty one by add_workspace,
\* remove_workspace, switch_workspace and update_workspace_path, the current
\* workspace is unset or registered; it is unset only while no workspace was
\* ever added, the first add sets it to the workspace added, and after that
\* only a successful switch_workspace changes it.
C29_CurrentWorkspaceRegistered ==
    /\ config.current_workspace = None \/ Unwrap(config.current_workspace) \in Registered(config)
    /\ config.current_workspace = None <=> Registered(config) = {}
    /\ \A name \in WorkspaceNames, path \in WorkspacePaths :
          LET added == add_workspace(config, name, path)
              removed == remove_workspace(config, name)
              switched == switch_workspace(config, name)
              updated == update_workspace_path(config, name, path)
          IN  /\ added.ok =>
                    added.config.current_workspace =
                        IF config.current_workspace = None THEN Some(name)
                        ELSE config.current_workspace
              /\ removed.ok => removed.config.current_workspace = config.current_workspace
              /\ updated.ok => updated.config.current_workspace = config.current_workspace
              /\ switched.ok => switched.config.current_workspace = Some(name)

\* a workspace was removed after the current one had been switched away
\* from the first one added: two are registered, one of them current
C29_Witness ==
    /\ last = "remove_workspace"
    /\ Cardinality(Registered(config)) = 2
    /\ IsSome(config.current_workspace)
    /\ Unwrap(config.current_workspace) \in Registered(config)

\* C30: an AppConfig call that fails leaves the config as it was:
\* add_workspace of a registered name fails with WorkspaceAlreadyExists,
\* remove_workspace of the current workspace with
\* CannotRemoveCurrentWorkspace, and remove, switch and update of a name
\* that is not registered with WorkspaceNotFound.
C30_FailedConfigCallChangesNothing ==
    \A name \in WorkspaceNames, path \in WorkspacePaths :
        LET added == add_workspace(config, name, path)
            removed == remove_workspace(config, name)
            switched == switch_workspace(config, name)
            updated == update_workspace_path(config, name, path)
        IN  /\ name \in Registered(config) =>
                  added = ConfigErr("WorkspaceAlreadyExists", config)
            /\ config.current_workspace = Some(name) =>
                  removed = ConfigErr("CannotRemoveCurrentWorkspace", config)
            /\ name \notin Registered(config) =>
                  /\ removed = ConfigErr("WorkspaceNotFound", config)
                  /\ switched = ConfigErr("WorkspaceNotFound", config)
                  /\ updated = ConfigErr("WorkspaceNotFound", config)
            /\ \A r \in {added, removed, switched, updated} : ~r.ok => r.config = config

\* remove_workspace of the current workspace has just failed, with another
\* workspace registered and a name that is not
C30_Witness ==
    /\ last = "CannotRemoveCurrentWorkspace"
    /\ IsSome(config.current_workspace)
    /\ Cardinality(Registered(config)) = 2

\* ------------------------------------------------------------------ SpecFlags
\* A second list is created next to the default list, a task is put in a
\* list, the clock runs, and the two flags of the lists are set and cleared.
NextFlags ==
    \/ Tick
    \/ next_uuid = 2 /\ \E name \in ListNames : CreateList(name)
    \/ NoTaskFiles /\ \E l \in OpenLists : \E task \in FirstTasks : CreateTask(l, task)
    \/ \E l \in OpenLists, b \in BOOLEAN : SetGroupByDueDate(l, b)
    \/ \E l \in OpenLists, b \in BOOLEAN : ArchiveList(l, b)

SpecFlags == Init /\ [][NextFlags]_vars

\* the metadata of list l as stored in the tree f
StoredMetadata(f, l) == Unwrap(Unwrap(f.dirs[Unwrap(list_paths[l])]).listdata)

\* the tree fs with the metadata file of list l holding metadata
WithMetadata(l, metadata) ==
    [fs EXCEPT !.dirs[Unwrap(list_paths[l])] = Some([Unwrap(@) EXCEPT !.listdata = Some(metadata)])]

\* C28: archive_list(l, v) and set_group_by_due_date(l, v) set their flag of
\* list l to v and stamp its updated_at with the clock, which does not run
\* back; the identifier, created_at, the task order and the other flag of l,
\* every task file and every other list stay as they were; archiving l and
\* then unarchiving it leaves l not archived.
C28_FlagCallsTouchOneFlag ==
    \A l \in OpenLists, v \in BOOLEAN :
        LET before == StoredMetadata(fs, l)
            g == set_group_by_due_date(fs, list_paths, l, v, now)
            a == archive_list(fs, list_paths, l, v, now)
            grouped == StoredMetadata(g.fs, l)
            shelved == StoredMetadata(a.fs, l)
            back == archive_list(archive_list(fs, list_paths, l, TRUE, now).fs,
                                 list_paths, l, FALSE, now)
        IN  /\ g.ok /\ a.ok /\ back.ok
            /\ g.lp = list_paths /\ a.lp = list_paths
            /\ g.fs = WithMetadata(l, grouped)
            /\ a.fs = WithMetadata(l, shelved)
            /\ grouped.group_by_due_date = v
            /\ ListMetadata_archived(grouped) = ListMetadata_archived(before)
            /\ ListMetadata_archived(shelved) = v
            /\ shelved.group_by_due_date = before.group_by_due_date
            /\ \A m \in {grouped, shelved} :
                  /\ m.updated_at = now
                  /\ m.updated_at >= before.updated_at
                  /\ m.id = before.id
                  /\ m.created_at = before.created_at
                  /\ m.task_order = before.task_order
            /\ ~ListMetadata_archived(StoredMetadata(back.fs, l))

\* a list that holds a task was grouped by due date and then archived, after
\* the clock ran, with another list next to it
C28_Witness ==
    /\ last = "archive_list"
    /\ \E l \in OpenLists :
          /\ ListMetadata_archived(StoredMetadata(fs, l))
          /\ StoredMetadata(fs, l).group_by_due_date
          /\ StoredMetadata(fs, l).task_order # <<>>
          /\ StoredMetadata(fs, l).updated_at > StoredMetadata(fs, l).created_at
          /\ OpenLists # {l}

\* C31: push, pull and sync delete no file, whichever transport call fails:
\* a file of the local tree or of the server before the call is there after
\* it; the deleted_local, deleted_remote and conflicts_resolved lists of
\* every result are empty; and a file that the server holds and the local
\* tree has lost is in the local tree again after a successful sync.
C31_SyncDeletesNothing ==
    \A fail \in FailPoints(fs) :
        \A walk \in Walks(fs) :
            \A r \in {push(fs, remote, walk, fail, <<>>), pull(fs, remote, fail, <<>>),
                      sync(fs, remote, walk, fail)} :
                /\ local_files(fs) \subseteq local_files(r.fs)
                /\ remote_files(remote) \subseteq remote_files(r.remote)
                /\ r.ok =>
                      /\ Unwrap(r.result).deleted_local = <<>>
                      /\ Unwrap(r.result).deleted_remote = <<>>
                      /\ Unwrap(r.result).conflicts_resolved = <<>>
                /\ (r.ok /\ r = sync(fs, remote, walk, fail)) =>
                      remote_files(remote) \subseteq local_files(r.fs)

\* the statement of C32 as it was made: update_task of a task read from the
\* file of stem s, with another title, returns Ok, the file named after the
\* new sanitized title carries the task, and the file s is as it was.
C32_UpdateTaskLeavesOldFile ==
    \A l \in OpenLists :
        \A s \in TaskFiles(fs, list_paths, l) :
            \A title \in Titles :
                LET old == parse_task_file(s, FileText(l, s)).val
                    r == update_task(fs, list_paths, l, [old EXCEPT !.title = title], now)
                    stem == sanitize_filename(title)
                IN  (has_md_extension(s) /\ title # old.title) =>
                        /\ r.ok
                        /\ TaskFile(r.fs, list_paths, l, stem).id = old.id
                        /\ Unwrap(r.fs.dirs[Unwrap(list_paths[l])]).tasks[s] = Some(FileText(l, s))

\* C32: update_task of a task read from the file of stem s, with a title
\* whose sanitized form is not s, returns Ok and writes the file named after
\* the new sanitized title with the task's identifier and the clock as
\* updated_at; the file s is left with its old content and the same
\* identifier, and every other task file of the list is as it was.  With a
\* title whose sanitized form is s the file s itself is rewritten and no
\* file is added.
C32_UpdateTaskLeavesOldFileOfOtherName ==
    \A l \in OpenLists :
        \A s \in TaskFiles(fs, list_paths, l) :
            \A title \in Titles :
                LET old == parse_task_file(s, FileText(l, s)).val
                    r == update_task(fs, list_paths, l, [old EXCEPT !.title = title], now)
                    stem == sanitize_filename(title)
                    after == Unwrap(r.fs.dirs[Unwrap(list_paths[l])]).tasks
                IN  has_md_extension(s) =>
                        /\ r.ok
                        /\ TaskFile(r.fs, list_paths, l, stem).id = old.id
                        /\ TaskFile(r.fs, list_paths, l, stem).updated = now
                        /\ \A x \in Stems \ {stem} : after[x] = IF x \in TaskFiles(fs, list_paths, l)
                                                                  THEN Some(FileText(l, x)) ELSE None
                        /\ stem # s =>
                              /\ after[s] = Some(FileText(l, s))
                              /\ TaskFile(r.fs, list_paths, l, s).id = old.id
                        /\ stem = s =>
                              TaskFiles(r.fs, list_paths, l) = TaskFiles(fs, list_paths, l)

\* update_task has just written a task under a new title after the clock
\* ran: two files of one list carry the identifier, the old one with the
\* old updated_at
C32_Witness ==
    /\ last = "update_task"
    /\ \E l \in OpenLists :
          \E s1, s2 \in TaskFiles(fs, list_paths, l) :
              /\ s1 # s2
              /\ TaskFile(fs, list_paths, l, s1).id = TaskFile(fs, list_paths, l, s2).id
              /\ TaskFile(fs, list_paths, l, s1).updated < TaskFile(fs, list_paths, l, s2).updated

\* C33: create_list with a name whose sanitized form is the directory of an
\* existing list returns Ok with the new identifier: the directory is
\* reused, its list metadata is that of a new list (the new identifier, an
\* empty task order), its task files are as they were, the new identifier is
\* appended to the list order, which still holds the old one, the index maps
\* the new identifier to the directory, and every other directory is as it
\* was.
C33_CreateListReusesDirectory ==
    \A name \in ListNames :
        LET d == sanitize_filename(name)
            r == create_list(fs, list_paths, name, next_uuid, now)
            before == Unwrap(fs.dirs[d])
            after == Unwrap(r.fs.dirs[d])
            old == Unwrap(before.listdata).id
        IN  (next_uuid <= MaxLists /\ dir_exists(fs, d) /\ IsSome(before.listdata)) =>
                /\ r.ok
                /\ r.val = next_uuid
                /\ r.val # old
                /\ after.listdata = Some(ListMetadata_new(next_uuid, now))
                /\ Unwrap(after.listdata).task_order = <<>>
                /\ after.tasks = before.tasks
                /\ ListOrder(r.fs) = Append(ListOrder(fs), next_uuid)
                /\ contains(ListOrder(r.fs), old)
                /\ r.lp = [list_paths EXCEPT ![next_uuid] = Some(d)]
                /\ \A x \in DirNames \ {d} : r.fs.dirs[x] = fs.dirs[x]

\* create_list has just reused the directory of a list that holds a task
\* file: the metadata names no task, the file is there, and the list order
\* holds the identifier of the list that had the directory before
C33_Witness ==
    /\ last = "create_list"
    /\ \E d \in DirNames :
          /\ dir_exists(fs, d)
          /\ files_in(fs, d) # {}
          /\ Unwrap(Unwrap(fs.dirs[d]).listdata).task_order = <<>>
          /\ Unwrap(Unwrap(fs.dirs[d]).listdata).id = next_uuid - 1
          /\ \E l \in Range(ListOrder(fs)) :
                /\ l # next_uuid - 1
                /\ list_paths[l] = Some(d)

\* ------------------------------------------------------------------ SpecFailing
\* The task operations on the workspace that TaskRepository::init made,
\* with tasks of any title, also one that fs::write refuses as a file name;
\* a call that returns Err is a step like one that returns Ok.
TasksOfAnyTitle ==
    {Task_new(id, title, now) : id \in TaskIds, title \in Titles \cup {UnwritableTitle}}

CreateTaskReturns(l, task) ==
    /\ OrderHasRoom(l)
    /\ Returns("create_task", create_task(fs, list_paths, l, task, now))
    /\ UNCHANGED <<now, next_uuid, issued, created>>

UpdateTaskReturns(l, task) ==
    /\ Returns("update_task", update_task(fs, list_paths, l, task, now))
    /\ UNCHANGED <<now, next_uuid, issued, created>>

DeleteTaskReturns(l, id) ==
    /\ \E scan \in ScanOf(l) :
          Returns("delete_task", delete_task(fs, list_paths, l, id, now, scan))
    /\ UNCHANGED <<now, next_uuid, issued, created>>

NextFailing ==
    \/ \E l \in ListIds, task \in TasksOfAnyTitle : NewId(l, task) /\ CreateTaskReturns(l, task)
    \/ \E l \in ListIds, task \in TasksOfAnyTitle : UpdateTaskReturns(l, task)
    \/ \E l \in ListIds, id \in TaskIds : DeleteTaskReturns(l, id)

SpecFailing == Init /\ [][NextFailing]_vars

\* C34: a create_task, update_task or delete_task call that returns Err
\* leaves the workspace as it was before the call: in particular the task
\* order of the list is without the identifier after a failed create_task,
\* and the task files are in place after a failed delete_task.
C34_FailedTaskCallChangesNothing ==
    \A l \in ListIds :
        /\ \A task \in TasksOfAnyTitle :
              LET c == create_task(fs, list_paths, l, task, now)
                  u == update_task(fs, list_paths, l, task, now)
              IN  /\ ~c.ok => (c.fs = fs /\ c.lp = list_paths)
                  /\ (~c.ok /\ NewId(l, task)) =>
                        ~contains(TaskOrder(c.fs, list_paths, l), task.id)
                  /\ ~u.ok => (u.fs = fs /\ u.lp = list_paths)
        /\ \A id \in TaskIds, scan \in ScanOf(l) :
              LET d == delete_task(fs, list_paths, l, id, now, scan)
              IN  ~d.ok => (d.fs = fs /\ d.lp = list_paths)

\* C35: the stored task order of a list never holds an identifier twice,
\* whatever create_task, delete_task and reorder_task calls were made, also
\* create_task of a task that was created before, and list_tasks returns no
\* task twice.
C35_TaskOrderHasNoDuplicates ==
    \A l \in OpenLists :
        /\ NoDuplicates(TaskOrder(fs, list_paths, l))
        /\ \A scan \in ScanOf(l), iter \in IterOf(l) :
              LET r == list_tasks(fs, list_paths, l, scan, iter)
              IN  r.ok => NoDuplicates(IdsOf(r.val))

\* C36: reorder_task and reorder_list only permute: for every identifier and
\* position, also an identifier that the order does not hold, the stored
\* order holds the same identifiers after the call as before it; reorder_task
\* changes no task file, no other list and not the workspace metadata, and
\* reorder_list changes no list.
C36_ReorderOnlyPermutes ==
    /\ \A l \in ListIds, id \in Uuids, p \in Positions :
          LET r == reorder_task(fs, list_paths, l, id, p, now)
          IN  r.ok =>
                  /\ Range(TaskOrder(r.fs, r.lp, l)) = Range(TaskOrder(fs, list_paths, l))
                  /\ r.fs.metadata = fs.metadata
                  /\ \A d \in DirNames :
                        IF list_paths[l] = Some(d)
                        THEN Unwrap(r.fs.dirs[d]).tasks = Unwrap(fs.dirs[d]).tasks
                        ELSE r.fs.dirs[d] = fs.dirs[d]
    /\ \A l \in Uuids, p \in Positions :
          LET r == reorder_list(fs, list_paths, l, p)
          IN  r.ok =>
                  /\ Range(ListOrder(r.fs)) = Range(ListOrder(fs))
                  /\ r.fs.dirs = fs.dirs

\* the tasks that get_task(l, id) returns in the tree f, over the orders in
\* which read_dir may yield the directory
ReadableAs(f, lp, l, id) ==
    {get_task(f, lp, l, id, scan).val :
        scan \in {x \in ScanOfIn(f, lp, l) : get_task(f, lp, l, id, x).ok}}

\* C37: a create_task(L, t) that returns Ok destroys no other task: every
\* task of another identifier that get_task could read before the call, in
\* L or in another list, is read after it with the same fields, whatever
\* the title of t.
C37_CreateTaskKeepsOtherTasks ==
    \A l \in ListIds, task \in NewTasks :
        LET r == create_task(fs, list_paths, l, task, now)
        IN  r.ok =>
                \A other \in ListIds, id \in TaskIds \ {task.id} :
                    ReadableAs(fs, list_paths, other, id) # {} =>
                        \A scan \in ScanOfIn(r.fs, r.lp, other) :
                            LET g == get_task(r.fs, r.lp, other, id, scan)
                            IN  /\ g.ok
                                /\ g.val \in ReadableAs(fs, list_paths, other, id)

\* C38: when the create_task calls of two repository instances, for two
\* tasks of distinct titles on one list, have both returned Ok, list_tasks of
\* that list returns both tasks, each once, in whatever order the calls
\* interleaved and whether or not the stored task order names both.
C38_BothTasksListedAfterRace ==
    (/\ \A p \in Instances : Returned(p)
     /\ inflight[1].list_id = inflight[2].list_id
     /\ Unwrap(inflight[1].task).title # Unwrap(inflight[2].task).title) =>
        LET l == Unwrap(inflight[1].list_id)
        IN  \A scan \in ScanOf(l), iter \in IterOf(l) :
                LET r == list_tasks(fs, list_paths, l, scan, iter)
                IN  /\ r.ok
                    /\ Len(r.val) = 2
                    /\ \A p \in Instances : \E i \in 1..2 : r.val[i].id = p

\* ------------------------------------------------------------------ SpecMove
\* A second list is created next to the default list, a task is created
\* and renamed through update_task, and the CLI command move_task moves it
\* between the lists, one statement at a time: the state between its
\* delete_task and its create_task is the one a failure leaves.  The titles
\* are not empty, so that find_task can read every task file.
NotMoving == inflight[1].pc # "deleted"

NextMove ==
    \/ NotMoving /\ next_uuid = 2 /\ \E name \in ListNames : CreateList(name)
    \/ NotMoving /\ NoTaskFiles /\ \E l \in OpenLists : \E task \in FirstTasks :
                                       task.title # <<>> /\ CreateTask(l, task)
    \/ NotMoving /\ \E l \in OpenLists : \E task \in Renames(l) :
                      task.title # <<>> /\ UpdateTask(l, task)
    \/ \E id \in TaskIds, name \in DirNames : MoveTaskDelete(id, name)
    \/ MoveTaskCreate

SpecMove == Init /\ [][NextMove]_vars

\* C39: the CLI move of a task never loses it.  After delete_task and before
\* create_task, where a failure ends the command with an error, a file of
\* some list carries the task's identifier; when the command has returned
\* Ok the target list holds the task, with the identifier and the fields it
\* was found with, and no other list holds the identifier; and a command
\* that fails before create_task leaves the workspace as it was.
C39_MoveNeverLosesTask ==
    /\ inflight[1].pc = "deleted" => Holders(Unwrap(inflight[1].task).id) # {}
    /\ inflight[1].pc = "moved" =>
          LET target == Unwrap(inflight[1].list_id)
              task == Unwrap(inflight[1].task)
          IN  /\ Holders(task.id) = {target}
              /\ \A scan \in ScanOf(target) :
                    get_task(fs, list_paths, target, task.id, scan) = Ok(task, fs, list_paths)
    /\ NotMoving =>
          \A id \in TaskIds, name \in DirNames :
              \A openscan \in RootScans(fs) :
                  \A scanOf \in ScanChoices(fs, storage_new(fs, openscan)) :
                      LET lp == storage_new(fs, openscan)
                          found == find_task(fs, lp, id, openscan, scanOf)
                      IN  \A scan \in (IF found.ok THEN ScanOfIn(fs, lp, found.val.list_id)
                                       ELSE {<<>>}) :
                              LET r == move_task_delete(fs, id, name, openscan, openscan,
                                                        openscan, scanOf, scan, now)
                              IN  ~r.ok => r.fs = fs

\* ------------------------------------------------------------------------ C40
\* C40: in every workspace state reached from the initialized workspace by
\* create_list, delete_list and reorder_list, the last-opened pointer of the
\* workspace metadata is unset or an identifier of the list order, and it is
\* unset only when the list order is empty.
C40_LastOpenedIsInListOrder ==
    /\ IsSome(LastOpened(fs)) =>
           \E i \in 1..Len(ListOrder(fs)) : ListOrder(fs)[i] = Unwrap(LastOpened(fs))
    /\ LastOpened(fs) = None => ListOrder(fs) = <<>>

====
